---- MODULE Spec2Model ----
(***************************************************************************)
(* A model of the RDAP lookup client: the IANA bootstrap caches            *)
(* (lib/rdap-bootstrap, lib/ip-rdap, lib/rdap), the resolvers, the         *)
(* validators and the lookup flows built on them.                          *)
(*                                                                         *)
(* Every `await` of the source is a step boundary: between two awaits a    *)
(* handler runs without interruption (one JavaScript thread), so the code  *)
(* between two awaits is one action.                                       *)
(***************************************************************************)
EXTENDS Integers, Sequences, FiniteSets, TLC

VARIABLES
    clock,                 \* Date.now(), in ms since the process started
    bootstrapCache,        \* rdap-bootstrap: Map<type, {data, expiry}>
    ipv4BootstrapCache,    \* ip-rdap: [string[], string[]][] | null
    ipv6BootstrapCache,    \* ip-rdap: [string[], string[]][] | null
    bootstrapCacheExpiry,  \* ip-rdap: shared expiry of the two tables
    calls,                 \* the calls in flight, one per slot
    lastOk,                \* history: per type, the last call to complete successfully,
                           \* and whether the cache was cleared since
    lastOkIP,              \* history: the last ip-rdap refresh to complete successfully
    eval,                  \* the last call of a pure function: its name, arguments and result
    req,                   \* the lookup being served: where it stands and what it did
    rdapServersCache,      \* rdap: [string[], string[]][] | null
    dnsFetchedAt,          \* history: when rdapServersCache was assigned
    geo,                   \* ip-rdap with geolocation: the two geolocation tables, their
                           \* expiry, the fetch of them in flight, and (history) whether
                           \* it failed and the location of the last result
    page                   \* the lookup page: the state of the Home component and the
                           \* lookup it has in flight

cacheVars == <<clock, bootstrapCache, ipv4BootstrapCache, ipv6BootstrapCache,
               bootstrapCacheExpiry, calls, lastOk, lastOkIP>>

\* what the calls of the bootstrap caches leave alone
lookupVars == <<req, rdapServersCache, dnsFetchedAt, geo, page>>
outsideCache == <<eval, lookupVars>>

vars == <<cacheVars, outsideCache>>

-----------------------------------------------------------------------------
(* Bounds of the model *)

MaxCalls == 2      \* calls made in one behaviour, all of which may be in flight together
MaxTicks == 2      \* steps the clock takes in one behaviour
MaxLookups == 3    \* lookups the page starts in one behaviour

-----------------------------------------------------------------------------
(* rdap-bootstrap and ip-rdap: constants *)

CACHE_TTL == 24 * 60 * 60 * 1000

Types == {"ipv4", "ipv6", "asn", "dns", "objectTags"}

IANA_BOOTSTRAP_URLS ==
    [t \in Types |->
        CASE t = "ipv4" -> "https://data.iana.org/rdap/ipv4.json"
          [] t = "ipv6" -> "https://data.iana.org/rdap/ipv6.json"
          [] t = "asn" -> "https://data.iana.org/rdap/asn.json"
          [] t = "dns" -> "https://data.iana.org/rdap/dns.json"
          [] t = "objectTags" -> "https://data.iana.org/rdap/object-tags.json"]

Slots == 1..MaxCalls

\* The clock moves by 1 ms or by one millisecond less than the time-to-live, so
\* that T + CACHE_TTL - 1, T + CACHE_TTL and T + CACHE_TTL + 1 are all reached.
ClockSteps == {1, CACHE_TTL - 1}
TicksTaken(now) == (now \div (CACHE_TTL - 1)) + (now % (CACHE_TTL - 1))

\* An absent Map entry, and the null table of ip-rdap. The data of a fetch is
\* the response object of that fetch, named by the serial number of the call.
NoEntry == [present |-> FALSE, data |-> 0, expiry |-> 0]
NoTable == 0
NoCall == [set |-> FALSE, id |-> 0, now |-> 0, cleared |-> FALSE]

\* Calls are numbered in the order in which they begin.
IsNext(c) == IF c = 1 THEN TRUE ELSE calls[c - 1].pc # "idle"

IdleCall == [pc |-> "idle", fn |-> "none", type |-> "none", now |-> 0, id |-> 0,
             result |-> 0, fetched |-> {}, net |-> "none"]

-----------------------------------------------------------------------------
(* rdap-bootstrap: fetchBootstrapData(type), clearBootstrapCache *)

\* `cached && now < cached.expiry`
IsFreshLate(cached, now) == cached.present /\ now <= cached.expiry
IsFresh(cached, now) == cached.present /\ now < cached.expiry

\* the entry of bootstrapCache.set(type, {data, expiry: now + CACHE_TTL})
NewEntryKeepOld(old, data, now) ==
    [present |-> TRUE, data |-> IF old.present THEN old.data ELSE data,
     expiry |-> now + CACHE_TTL]
NewEntryKeepNewer(old, data, now) ==
    IF old.present /\ old.expiry > now + CACHE_TTL
    THEN old
    ELSE [present |-> TRUE, data |-> data, expiry |-> now + CACHE_TTL]
NewEntry(old, data, now) ==
    [present |-> TRUE, data |-> data, expiry |-> now + CACHE_TTL]

\* The end of the try block: a response that is ok and parses is cached and
\* returned; anything else is thrown again by the catch block.
BootCompleteFailOpen(cache, t, now, ok, data) ==
    IF ok
    THEN [cache |-> [cache EXCEPT ![t] = NewEntry(cache[t], data, now)],
          pc |-> "returned", result |-> data]
    ELSE IF cache[t].present
         THEN [cache |-> cache, pc |-> "returned", result |-> cache[t].data]
         ELSE [cache |-> cache, pc |-> "threw", result |-> 0]
BootComplete(cache, t, now, ok, data) ==
    IF ok
    THEN [cache |-> [cache EXCEPT ![t] = NewEntry(cache[t], data, now)],
          pc |-> "returned", result |-> data]
    ELSE [cache |-> cache, pc |-> "threw", result |-> 0]

ipVarsOfCache == <<ipv4BootstrapCache, ipv6BootstrapCache, bootstrapCacheExpiry, lastOkIP>>

\* lines 521-530: read the clock, return the cached data while it is fresh,
\* otherwise send the request to the IANA URL of the type.
BootBegin(c, t) ==
    /\ calls[c].pc = "idle"
    /\ IsNext(c)
    /\ LET now == clock
           cached == bootstrapCache[t]
       IN  calls' = [calls EXCEPT ![c] =
                IF IsFresh(cached, now)
                THEN [pc |-> "returned", fn |-> "rdap-bootstrap", type |-> t,
                      now |-> now, id |-> c, result |-> cached.data,
                      fetched |-> {}, net |-> "none"]
                ELSE [pc |-> "fetching", fn |-> "rdap-bootstrap", type |-> t,
                      now |-> now, id |-> c, result |-> 0,
                      fetched |-> {IANA_BOOTSTRAP_URLS[t]}, net |-> "pending"]]
    /\ UNCHANGED <<clock, bootstrapCache, lastOk>>
    /\ UNCHANGED ipVarsOfCache
    /\ UNCHANGED outsideCache

\* lines 530-534: the request settles: a response that is ok, a response that
\* is not, or a rejected fetch.
BootFetchSettles(c, outcome) ==
    /\ calls[c].pc = "fetching"
    /\ calls[c].fn = "rdap-bootstrap"
    /\ IF outcome = "ok"
       THEN /\ calls' = [calls EXCEPT ![c].pc = "parsing"]
            /\ UNCHANGED bootstrapCache
       ELSE LET r == BootComplete(bootstrapCache, calls[c].type, calls[c].now, FALSE, 0)
            IN  /\ calls' = [calls EXCEPT ![c].pc = r.pc, ![c].result = r.result,
                                          ![c].net = outcome]
                /\ bootstrapCache' = r.cache
    /\ UNCHANGED <<clock, lastOk>>
    /\ UNCHANGED ipVarsOfCache
    /\ UNCHANGED outsideCache

\* lines 536-549: response.json() settles; the parsed body is cached.
BootJsonSettles(c, parsed) ==
    /\ calls[c].pc = "parsing"
    /\ calls[c].fn = "rdap-bootstrap"
    /\ LET t == calls[c].type
           r == BootComplete(bootstrapCache, t, calls[c].now, parsed, calls[c].id)
       IN  /\ calls' = [calls EXCEPT ![c].pc = r.pc, ![c].result = r.result,
                                     ![c].net = IF parsed THEN "ok" ELSE "badjson"]
           /\ bootstrapCache' = r.cache
           /\ lastOk' = IF parsed
                        THEN [lastOk EXCEPT ![t] = [set |-> TRUE, id |-> calls[c].id,
                                                    now |-> calls[c].now,
                                                    cleared |-> FALSE]]
                        ELSE lastOk
    /\ UNCHANGED clock
    /\ UNCHANGED ipVarsOfCache
    /\ UNCHANGED outsideCache

\* lines 555-557
clearBootstrapCache ==
    /\ \E t \in Types : bootstrapCache[t].present
    /\ bootstrapCache' = [t \in Types |-> NoEntry]
    /\ lastOk' = [t \in Types |-> [lastOk[t] EXCEPT !.cleared = lastOk[t].set]]
    /\ UNCHANGED <<clock, calls>>
    /\ UNCHANGED ipVarsOfCache
    /\ UNCHANGED outsideCache

\* lines 562-577 listing only the entries that have not expired
getCacheStatsUnexpired(cache) ==
    LET held == {t \in Types : cache[t].present /\ clock < cache[t].expiry}
    IN  [size |-> Cardinality(held),
         entries |-> {[type |-> t, expiry |-> cache[t].expiry] : t \in held}]

\* lines 562-577: the size of the Map, and one {type, expiry} for each of
\* its entries, the expiry being the Date of the entry's time value (the
\* array is kept as the set of its elements)
getCacheStats(cache) ==
    LET held == {t \in Types : cache[t].present}
    IN  [size |-> Cardinality(held),
         entries |-> {[type |-> t, expiry |-> cache[t].expiry] : t \in held}]

Tick(d) ==
    /\ TicksTaken(clock) < MaxTicks
    /\ clock' = clock + d
    /\ UNCHANGED <<bootstrapCache, calls, lastOk>>
    /\ UNCHANGED ipVarsOfCache
    /\ UNCHANGED outsideCache

-----------------------------------------------------------------------------
(* ip-rdap: fetchBootstrapData(), the refresh of the IPv4 and IPv6 tables *)

cacheVarsOfBootstrap == <<bootstrapCache, lastOk>>

\* `ipv4BootstrapCache && ipv6BootstrapCache && now < bootstrapCacheExpiry`
IPIsFresh(v4, v6, expiry, now) == v4 # NoTable /\ v6 # NoTable /\ now < expiry

\* lines 79-81: the three assignments, which no await separates
IPStoreExpiryFirst(old, data4, data6, now, ok) ==
    IF ok
    THEN [v4 |-> data4, v6 |-> data6, expiry |-> now + CACHE_TTL]
    ELSE [old EXCEPT !.expiry = now + CACHE_TTL]
IPStore(old, data4, data6, now, ok) ==
    IF ok
    THEN [v4 |-> data4, v6 |-> data6, expiry |-> now + CACHE_TTL]
    ELSE old

IPCacheNow == [v4 |-> ipv4BootstrapCache, v6 |-> ipv6BootstrapCache,
               expiry |-> bootstrapCacheExpiry]

\* lines 57-68
IPBootBegin(c) ==
    /\ calls[c].pc = "idle"
    /\ IsNext(c)
    /\ LET now == clock
       IN  calls' = [calls EXCEPT ![c] =
                IF IPIsFresh(ipv4BootstrapCache, ipv6BootstrapCache,
                             bootstrapCacheExpiry, now)
                THEN [pc |-> "returned", fn |-> "ip-rdap", type |-> "ip",
                      now |-> now, id |-> c, result |-> 0, fetched |-> {},
                      net |-> "none"]
                ELSE [pc |-> "fetching", fn |-> "ip-rdap", type |-> "ip",
                      now |-> now, id |-> c, result |-> 0,
                      fetched |-> {IANA_BOOTSTRAP_URLS["ipv4"],
                                   IANA_BOOTSTRAP_URLS["ipv6"]},
                      net |-> "pending"]]
    /\ UNCHANGED <<clock, ipv4BootstrapCache, ipv6BootstrapCache,
                   bootstrapCacheExpiry, lastOkIP>>
    /\ UNCHANGED cacheVarsOfBootstrap
    /\ UNCHANGED outsideCache

\* lines 65-72: Promise.all of the two requests settles; o4 and o6 are what
\* became of each: "ok", "non2xx" or "neterr".
IPBootFetchSettles(c, o4, o6) ==
    /\ calls[c].pc = "fetching"
    /\ calls[c].fn = "ip-rdap"
    /\ LET ok == o4 = "ok" /\ o6 = "ok"
           r == IPStore(IPCacheNow, 0, 0, calls[c].now, FALSE)
       IN  /\ calls' = [calls EXCEPT ![c].pc = IF ok THEN "parsing" ELSE "threw",
                                     ![c].net = IF ok THEN "pending"
                                                ELSE IF "neterr" \in {o4, o6}
                                                     THEN "neterr" ELSE "non2xx"]
           /\ ipv4BootstrapCache' = IF ok THEN ipv4BootstrapCache ELSE r.v4
           /\ ipv6BootstrapCache' = IF ok THEN ipv6BootstrapCache ELSE r.v6
           /\ bootstrapCacheExpiry' = IF ok THEN bootstrapCacheExpiry ELSE r.expiry
    /\ UNCHANGED <<clock, lastOkIP>>
    /\ UNCHANGED cacheVarsOfBootstrap
    /\ UNCHANGED outsideCache

\* lines 74-86: Promise.all of the two json() calls settles; p4 and p6 say
\* whether each body parsed.
IPBootJsonSettles(c, p4, p6) ==
    /\ calls[c].pc = "parsing"
    /\ calls[c].fn = "ip-rdap"
    /\ LET ok == p4 /\ p6
           r == IPStore(IPCacheNow, calls[c].id, calls[c].id, calls[c].now, ok)
       IN  /\ calls' = [calls EXCEPT ![c].pc = IF ok THEN "returned" ELSE "threw",
                                     ![c].net = IF ok THEN "ok" ELSE "badjson"]
           /\ ipv4BootstrapCache' = r.v4
           /\ ipv6BootstrapCache' = r.v6
           /\ bootstrapCacheExpiry' = r.expiry
           /\ lastOkIP' = IF ok
                          THEN [set |-> TRUE, id |-> calls[c].id, now |-> calls[c].now,
                                cleared |-> FALSE]
                          ELSE lastOkIP
    /\ UNCHANGED clock
    /\ UNCHANGED cacheVarsOfBootstrap
    /\ UNCHANGED outsideCache

-----------------------------------------------------------------------------
(* The bootstrap caches under concurrent calls *)

NoEval == [fn |-> "none"]

\* part_002 lines 74-77: no geolocation table, and no fetch of them in flight
NoGeo == [pc |-> "idle", v4 |-> "null", v6 |-> "null", expiry |-> 0, now |-> 0,
          failed |-> FALSE, location |-> "none"]

\* part_005 lines 75-83: the state of the Home component as useState makes it
NewPage == [pc |-> "created", lookupType |-> "domain", input |-> "", isLoading |-> FALSE,
            status |-> [message |-> <<"">>, type |-> "info"],
            domainResults |-> 0, ipResults |-> 0, asnResults |-> 0,
            kind |-> "none", url |-> "", ok |-> FALSE, lookups |-> 0]

\* A request to the network: the base URL and the path segment after it
\* ("" for a bootstrap file).
Fetch(url, path) == [url |-> url, path |-> path]

\* No lookup is being served.
IdleReq == [pc |-> "idle", flow |-> "none",
            ip |-> [fam |-> "junk", parts |-> <<>>, prefix |-> -1], class |-> "none",
            asn |-> [arg |-> [typeof |-> "number", chars |-> <<>>,
                              num |-> [nan |-> TRUE, neg |-> FALSE, d |-> <<>>]],
                     numeric |-> FALSE,
                     value |-> [nan |-> TRUE, neg |-> FALSE, d |-> <<>>]],
            domain |-> <<>>, now |-> 0, fetched |-> {}, queries |-> 0, resolved |-> FALSE,
            server |-> "null", response |-> 0,
            body |-> [shape |-> "notjson",
                      description |-> [kind |-> "undefined", text |-> ""],
                      title |-> [kind |-> "undefined", text |-> ""]],
            outcome |-> "none", status |-> 0, error |-> ""]

Outcomes == {"ok", "non2xx", "neterr"}

Init ==
    /\ clock = 0
    /\ bootstrapCache = [t \in Types |-> NoEntry]
    /\ ipv4BootstrapCache = NoTable
    /\ ipv6BootstrapCache = NoTable
    /\ bootstrapCacheExpiry = 0
    /\ calls = [c \in Slots |-> IdleCall]
    /\ lastOk = [t \in Types |-> NoCall]
    /\ lastOkIP = NoCall
    /\ eval = NoEval
    /\ req = IdleReq
    /\ rdapServersCache = NoTable
    /\ dnsFetchedAt = 0
    /\ geo = NoGeo
    /\ page = NewPage

Next ==
    \/ \E c \in Slots, t \in Types : BootBegin(c, t)
    \/ \E c \in Slots, o \in Outcomes : BootFetchSettles(c, o)
    \/ \E c \in Slots, p \in BOOLEAN : BootJsonSettles(c, p)
    \/ clearBootstrapCache
    \/ \E d \in ClockSteps : Tick(d)

Spec == Init /\ [][Next]_vars

\* ip-rdap's own cache of the IPv4 and IPv6 tables under concurrent lookups
NextIPCache ==
    \/ \E c \in Slots : IPBootBegin(c)
    \/ \E c \in Slots, o4 \in Outcomes, o6 \in Outcomes : IPBootFetchSettles(c, o4, o6)
    \/ \E c \in Slots, p4 \in BOOLEAN, p6 \in BOOLEAN : IPBootJsonSettles(c, p4, p6)
    \/ \E d \in ClockSteps : Tick(d)

SpecIPCache == Init /\ [][NextIPCache]_vars

-----------------------------------------------------------------------------
(* Properties of the bootstrap cache of rdap-bootstrap *)

Failed == {"non2xx", "neterr", "badjson"}

\* Call c begins in this step, for type t.
Begins(c, t) ==
    /\ calls[c].pc = "idle"
    /\ calls'[c].pc # "idle"
    /\ calls'[c].fn = "rdap-bootstrap"
    /\ calls'[c].type = t

\* In the step in which it began, call c returned the table `data` from the
\* cache and sent nothing.
ServedFromCache(c, data) ==
    /\ calls'[c].pc = "returned"
    /\ calls'[c].fetched = {}
    /\ calls'[c].result = data

\* In the step in which it began, call c sent one request, to the IANA URL of t.
Refetches(c, t) ==
    /\ calls'[c].pc = "fetching"
    /\ calls'[c].fetched = {IANA_BOOTSTRAP_URLS[t]}

\* C1, as stated: once a call for a type has succeeded with clock reading T,
\* every later call for the type that begins before T + 24h is served from the
\* cache without a fetch, and every call that begins at or after T + 24h
\* fetches from the IANA URL of the type.
C1_AsStated ==
    [][\A c \in Slots, t \in Types :
        (Begins(c, t) /\ lastOk[t].set) =>
            IF clock < lastOk[t].now + CACHE_TTL
            THEN ServedFromCache(c, lastOk[t].id)
            ELSE Refetches(c, t)]_vars

\* C1, amended: T is the clock reading of the last call for the type to
\* complete successfully, and the cache has not been cleared since. A call
\* that begins before T + 24h is served from the cache without a fetch; a call
\* that begins at or after T + 24h, or after clearBootstrapCache, or when no
\* call has succeeded yet, fetches from the IANA URL of the type.
C1_CacheTTL ==
    [][\A c \in Slots, t \in Types :
        Begins(c, t) =>
            IF lastOk[t].set /\ ~lastOk[t].cleared
               /\ clock < lastOk[t].now + CACHE_TTL
            THEN ServedFromCache(c, lastOk[t].id)
            ELSE Refetches(c, t)]_vars

\* A call that began exactly 24h after the reading of the cached entry is
\* refetching, and the other call was served that entry before it expired.
C1_Witness ==
    \E c \in Slots, t \in Types :
        /\ calls[c].fn = "rdap-bootstrap" /\ calls[c].type = t
        /\ calls[c].pc = "fetching"
        /\ lastOk[t].set /\ ~lastOk[t].cleared
        /\ calls[c].now = lastOk[t].now + CACHE_TTL

\* C3: a call whose refresh fails (a rejected fetch, a response that is not
\* ok, a body that does not parse) throws, returns no table, and none of its
\* steps changes the cache entry of any type: only the step in which a call
\* completes successfully writes the cache.
C3_FailClosed ==
    [][\A c \in Slots :
        /\ (calls'[c].net \in Failed /\ calls[c].net \notin Failed) =>
               /\ calls'[c].pc = "threw"
               /\ calls'[c].result = 0
        /\ (calls'[c] # calls[c] /\ calls'[c].net # "ok") =>
               bootstrapCache' = bootstrapCache]_vars

\* A refresh of an expired entry has failed: the call threw, and the expired
\* entry is still in the cache.
C3_Witness ==
    \E c \in Slots :
        /\ calls[c].fn = "rdap-bootstrap"
        /\ calls[c].net \in Failed
        /\ bootstrapCache[calls[c].type].present
        /\ bootstrapCache[calls[c].type].expiry <= calls[c].now

-----------------------------------------------------------------------------
(* JavaScript strings and numbers                                          *)
(* A string is the sequence of its characters. A number is kept as its     *)
(* decimal digits, most significant first and without leading zeros, with  *)
(* a sign; NaN is apart. (AS numbers go up to 2^32 - 1.)                    *)

DigitChars == <<"0", "1", "2", "3", "4", "5", "6", "7", "8", "9">>
IsDigit(ch) == \E i \in 1..10 : DigitChars[i] = ch
DigitVal(ch) == (CHOOSE i \in 1..10 : DigitChars[i] = ch) - 1
IsSpace(ch) == ch = " "

NaN == [nan |-> TRUE, neg |-> FALSE, d |-> <<>>]

RECURSIVE StripZeros(_)
StripZeros(d) ==
    IF Len(d) > 1 /\ d[1] = 0 THEN StripZeros(Tail(d)) ELSE d

\* the number with the digits d and the given sign (-0 is 0)
MkNum(neg, d) ==
    LET c == StripZeros(d)
    IN  [nan |-> FALSE, neg |-> neg /\ c # <<0>>, d |-> c]

NumOf(d) == MkNum(FALSE, d)

RECURSIVE DigitsLess(_, _)
DigitsLess(a, b) ==
    IF Len(a) # Len(b) THEN Len(a) < Len(b)
    ELSE IF a = <<>> THEN FALSE
    ELSE IF a[1] # b[1] THEN a[1] < b[1]
    ELSE DigitsLess(Tail(a), Tail(b))

\* a < b, a === b, a <= b, a >= b of JavaScript: false when either is NaN
NumLess(a, b) ==
    /\ ~a.nan /\ ~b.nan
    /\ IF a.neg # b.neg THEN a.neg
       ELSE IF a.neg THEN DigitsLess(b.d, a.d)
       ELSE DigitsLess(a.d, b.d)
NumEq(a, b) == ~a.nan /\ ~b.nan /\ a = b
NumLeq(a, b) == NumLess(a, b) \/ NumEq(a, b)
NumGeq(a, b) == NumLeq(b, a)

\* String.prototype.trim
RECURSIVE TrimStart(_)
TrimStart(s) == IF s # <<>> /\ IsSpace(s[1]) THEN TrimStart(Tail(s)) ELSE s
RECURSIVE TrimEnd(_)
TrimEnd(s) ==
    IF s # <<>> /\ IsSpace(s[Len(s)]) THEN TrimEnd(SubSeq(s, 1, Len(s) - 1)) ELSE s
Trim(s) == TrimEnd(TrimStart(s))

\* the longest prefix of s made of decimal digits, as digit values
RECURSIVE LeadingDigits(_)
LeadingDigits(s) ==
    IF s # <<>> /\ IsDigit(s[1])
    THEN <<DigitVal(s[1])>> \o LeadingDigits(Tail(s))
    ELSE <<>>

\* parseInt(s, 10): leading white space is skipped, a sign is read, then the
\* longest run of digits; what follows the digits is ignored; no digit, NaN.
parseInt(s) ==
    LET t == TrimStart(s)
        signed == t # <<>> /\ t[1] \in {"+", "-"}
        neg == t # <<>> /\ t[1] = "-"
        body == IF signed THEN Tail(t) ELSE t
        d == LeadingDigits(body)
    IN  IF d = <<>> THEN NaN ELSE MkNum(neg, d)

\* Number(s) on the strings of a bootstrap file: the empty string is 0, a
\* string of decimal digits is its value, anything else is NaN.
Number(s) ==
    LET t == Trim(s)
    IN  IF t = <<>> THEN NumOf(<<0>>)
        ELSE IF \A i \in 1..Len(t) : IsDigit(t[i])
        THEN NumOf([i \in 1..Len(t) |-> DigitVal(t[i])])
        ELSE NaN

\* s.includes(ch) and s.split(ch), for a separator of one character
StrIncludes(s, ch) == \E i \in 1..Len(s) : s[i] = ch
RECURSIVE Split(_, _)
Split(s, ch) ==
    IF ~StrIncludes(s, ch) THEN <<s>>
    ELSE LET i == CHOOSE k \in 1..Len(s) : s[k] = ch /\ \A j \in 1..(k - 1) : s[j] # ch
         IN  <<SubSeq(s, 1, i - 1)>> \o Split(SubSeq(s, i + 1, Len(s)), ch)

\* Array.prototype.includes on an array of strings: strict equality
Includes(arr, x) == \E i \in 1..Len(arr) : arr[i] = x

\* what a resolver returns when no entry matches
Null == "null"

\* A value of a property of a parsed body: undefined, a string, or an array
\* of strings (of no element, or of one: the text is what String() makes of
\* it, "" for the empty array).
Undefined == [kind |-> "undefined", text |-> ""]
Str(text) == [kind |-> "string", text |-> text]
EmptyArray == [kind |-> "array", text |-> ""]
ArrayOf(text) == [kind |-> "array", text |-> text]

\* what `||` takes for true: a string that is not empty, any array
Truthy(v) == v.kind = "array" \/ (v.kind = "string" /\ v.text # "")
Or(a, b) == IF Truthy(a) THEN a ELSE b

-----------------------------------------------------------------------------
(* asn-rdap: validateASN, findRdapServerForASN *)

N0 == NumOf(<<0>>)
N65535 == NumOf(<<6, 5, 5, 3, 5>>)
N4294967295 == NumOf(<<4, 2, 9, 4, 9, 6, 7, 2, 9, 5>>)

\* An argument of validateASN is a string or a number.
StrArg(chars) == [typeof |-> "string", chars |-> chars, num |-> NaN]
NumArg(n) == [typeof |-> "number", chars |-> <<>>, num |-> n]

\* lines 247-289
validateASN(asn) ==
    LET asnNum == IF asn.typeof = "string" THEN parseInt(Trim(asn.chars)) ELSE asn.num
    IN  IF asnNum.nan
        THEN [isValid |-> FALSE, normalized |-> NaN, error |-> "Invalid ASN format"]
        ELSE IF NumLess(asnNum, N0) \/ NumLess(N4294967295, asnNum)
        THEN [isValid |-> FALSE, normalized |-> NaN,
              error |-> "ASN must be between 0 and 4294967295"]
        ELSE IF NumEq(asnNum, N0) \/ NumEq(asnNum, N65535) \/ NumEq(asnNum, N4294967295)
        THEN [isValid |-> FALSE, normalized |-> NaN, error |-> "Reserved ASN"]
        ELSE [isValid |-> TRUE, normalized |-> asnNum, error |-> ""]

\* lines 298-311: whether one range token of the bootstrap file holds the ASN
AsnRangeHoldsExclusive(range, asn) ==
    IF StrIncludes(range, "-")
    THEN LET parts == Split(range, "-")
             start == Number(parts[1])
             end == Number(parts[2])
         IN  NumGeq(asn, start) /\ NumLess(asn, end)
    ELSE NumEq(asn, Number(range))
AsnRangeHolds(range, asn) ==
    IF StrIncludes(range, "-")
    THEN LET parts == Split(range, "-")
             start == Number(parts[1])
             end == Number(parts[2])
         IN  NumGeq(asn, start) /\ NumLeq(asn, end)
    ELSE NumEq(asn, Number(range))

\* lines 297-314: the scan of the services of the ASN bootstrap file; a
\* service is [ranges, urls].
RECURSIVE ScanASN(_, _, _)
ScanASN(services, asn, i) ==
    IF i > Len(services) THEN Null
    ELSE IF \E k \in 1..Len(services[i].ranges) :
                AsnRangeHolds(services[i].ranges[k], asn)
    THEN services[i].urls[1]
    ELSE ScanASN(services, asn, i + 1)

findRdapServerForASN(services, asn) == ScanASN(services, asn, 1)

-----------------------------------------------------------------------------
(* rdap: findRdapServerUrl *)

\* lines 68-71: the scan of the services of the DNS bootstrap file; a service
\* is [ranges, urls], the ranges being TLDs.
RECURSIVE ScanTLD(_, _, _)
ScanTLD(services, tld, i) ==
    IF i > Len(services) THEN Null
    ELSE IF Includes(services[i].ranges, tld) THEN services[i].urls[1]
    ELSE ScanTLD(services, tld, i + 1)

RECURSIVE ScanTLDLast(_, _, _)
ScanTLDLast(services, tld, i) ==
    IF i < 1 THEN Null
    ELSE IF Includes(services[i].ranges, tld) THEN services[i].urls[1]
    ELSE ScanTLDLast(services, tld, i - 1)

\* lines 65-72; the cache is [loaded, services]
findRdapServerUrlLastWins(cache, tld) ==
    IF ~cache.loaded THEN "throw: RDAP server list has not been initialized."
    ELSE ScanTLDLast(cache.services, tld, Len(cache.services))
findRdapServerUrl(cache, tld) ==
    IF ~cache.loaded THEN "throw: RDAP server list has not been initialized."
    ELSE ScanTLD(cache.services, tld, 1)

-----------------------------------------------------------------------------
(* ip-utils: validateIP, isPrivateIP, isReservedIP                          *)
(* The text of an address is kept as read by the ip-address parsers: the    *)
(* family of its notation ("v4" dotted decimal, "v6" colon hexadecimal,     *)
(* "junk" anything else), the numbers between the separators, and the       *)
(* prefix length after "/" (-1 when there is none).                         *)

IPv4Text(a, b, c, d) == [fam |-> "v4", parts |-> <<a, b, c, d>>, prefix |-> -1]
IPv6Text(parts) == [fam |-> "v6", parts |-> parts, prefix |-> -1]
Cidr4(a, b, c, d, p) == [fam |-> "v4", parts |-> <<a, b, c, d>>, prefix |-> p]
Cidr6(parts, p) == [fam |-> "v6", parts |-> parts, prefix |-> p]
JunkText == [fam |-> "junk", parts |-> <<>>, prefix |-> -1]

\* new Address4(text) does not throw: four numbers of at most 255, and a
\* prefix length of at most 32 when there is one
Address4Parses(text) ==
    /\ text.fam = "v4"
    /\ Len(text.parts) = 4
    /\ \A i \in 1..4 : text.parts[i] \in 0..255
    /\ text.prefix \in -1..32

\* new Address6(text) does not throw: eight groups of at most ffff, and a
\* prefix length of at most 128 when there is one
Address6Parses(text) ==
    /\ text.fam = "v6"
    /\ Len(text.parts) = 8
    /\ \A i \in 1..8 : text.parts[i] \in 0..65535
    /\ text.prefix \in -1..128

Pow2(n) == 2 ^ n
MinOf(a, b) == IF a < b THEN a ELSE b
MaxOf(a, b) == IF a > b THEN a ELSE b

\* subnetMask of a parsed address whose groups have w bits
SubnetMask(text, w) ==
    IF text.prefix = -1 THEN w * Len(text.parts) ELSE text.prefix

\* address.isInSubnet(range) of ip-address: false when the address has the
\* shorter mask, else the first range.subnetMask bits are compared
IsInSubnet(addr, range, w) ==
    LET m == SubnetMask(range, w)
    IN  /\ SubnetMask(addr, w) >= m
        /\ \A i \in 1..Len(range.parts) :
              LET k == MinOf(w, MaxOf(0, m - w * (i - 1)))
              IN  addr.parts[i] \div Pow2(w - k) = range.parts[i] \div Pow2(w - k)

\* lines 23-66
validateIP(ip) ==
    IF Address4Parses(ip)
    THEN [isValid |-> TRUE, version |-> "IPv4", normalized |-> ip, error |-> ""]
    ELSE IF Address6Parses(ip)
    THEN [isValid |-> TRUE, version |-> "IPv6", normalized |-> ip, error |-> ""]
    ELSE [isValid |-> FALSE, version |-> "", normalized |-> JunkText,
          error |-> "Invalid IP address format"]

\* lines 81-87 with 172.16.0.0/16 in the place of 172.16.0.0/12
PrivateRanges4Narrow ==
    <<Cidr4(10, 0, 0, 0, 8), Cidr4(172, 16, 0, 0, 16), Cidr4(192, 168, 0, 0, 16),
      Cidr4(127, 0, 0, 0, 8), Cidr4(169, 254, 0, 0, 16)>>

\* lines 81-87 and 97-101
PrivateRanges4 ==
    <<Cidr4(10, 0, 0, 0, 8), Cidr4(172, 16, 0, 0, 12), Cidr4(192, 168, 0, 0, 16),
      Cidr4(127, 0, 0, 0, 8), Cidr4(169, 254, 0, 0, 16)>>
PrivateRanges6 ==
    <<Cidr6(<<64512, 0, 0, 0, 0, 0, 0, 0>>, 7),
      Cidr6(<<65152, 0, 0, 0, 0, 0, 0, 0>>, 10),
      Cidr6(<<0, 0, 0, 0, 0, 0, 0, 1>>, 128)>>

\* lines 120-125 and 134-137
ReservedRanges4 ==
    <<Cidr4(0, 0, 0, 0, 8), Cidr4(224, 0, 0, 0, 4), Cidr4(240, 0, 0, 0, 4),
      Cidr4(255, 255, 255, 255, 32)>>
ReservedRanges6 ==
    <<Cidr6(<<65280, 0, 0, 0, 0, 0, 0, 0>>, 8),
      Cidr6(<<0, 0, 0, 0, 0, 0, 0, 0>>, 128)>>

\* ranges.some(range => address.isInSubnet(range))
SomeRange(ranges, addr, w) ==
    \E i \in 1..Len(ranges) : IsInSubnet(addr, ranges[i], w)

\* lines 71-107
isPrivateIP(ip) ==
    LET validation == validateIP(ip)
    IN  IF ~validation.isValid THEN FALSE
        ELSE IF validation.version = "IPv4"
        THEN SomeRange(PrivateRanges4, validation.normalized, 8)
        ELSE SomeRange(PrivateRanges6, validation.normalized, 16)

\* lines 112-143
isReservedIP(ip) ==
    LET validation == validateIP(ip)
    IN  IF ~validation.isValid THEN FALSE
        ELSE IF validation.version = "IPv4"
        THEN SomeRange(ReservedRanges4, validation.normalized, 8)
        ELSE SomeRange(ReservedRanges6, validation.normalized, 16)

-----------------------------------------------------------------------------
(* ip-rdap: findRdapServerForIP *)

\* lines 101-117, the body of the inner loop for one CIDR string of the
\* table: "match" when the address is in it, "throw" when a constructor
\* throws (the catch block continues with the next string), else "no".
TryCidr(ip, cidr, version) ==
    IF version = "IPv4"
    THEN IF ~Address4Parses(ip) \/ ~Address4Parses(cidr) THEN "throw"
         ELSE IF IsInSubnet(ip, cidr, 8) THEN "match" ELSE "no"
    ELSE IF ~Address6Parses(ip) \/ ~Address6Parses(cidr) THEN "throw"
         ELSE IF IsInSubnet(ip, cidr, 16) THEN "match" ELSE "no"

\* lines 99-121: the two nested loops, at CIDR string k of service i
RECURSIVE ScanIPAbortOnThrow(_, _, _, _, _)
ScanIPAbortOnThrow(services, ip, version, i, k) ==
    IF i > Len(services) THEN Null
    ELSE IF k > Len(services[i].ranges)
    THEN ScanIPAbortOnThrow(services, ip, version, i + 1, 1)
    ELSE LET r == TryCidr(ip, services[i].ranges[k], version)
         IN  IF r = "match" THEN services[i].urls[1]
             ELSE IF r = "throw" THEN Null
             ELSE ScanIPAbortOnThrow(services, ip, version, i, k + 1)
RECURSIVE ScanIP(_, _, _, _, _)
ScanIP(services, ip, version, i, k) ==
    IF i > Len(services) THEN Null
    ELSE IF k > Len(services[i].ranges)
    THEN ScanIP(services, ip, version, i + 1, 1)
    ELSE IF TryCidr(ip, services[i].ranges[k], version) = "match"
    THEN services[i].urls[1]
    ELSE ScanIP(services, ip, version, i, k + 1)

\* lines 92-122; each cache is [loaded, services]
findRdapServerForIP(cache4, cache6, ip, version) ==
    LET cache == IF version = "IPv4" THEN cache4 ELSE cache6
    IN  IF ~cache.loaded THEN "throw: Bootstrap data not loaded"
        ELSE ScanIP(cache.services, ip, version, 1, 1)

-----------------------------------------------------------------------------
(* rdap: normalizeRdapResponse *)

\* An optional list of the response (`data.events`, `entity.roles`, ...):
\* absent, or the list
Absent == [present |-> FALSE, items |-> <<>>]
ListOf(items) == [present |-> TRUE, items |-> items]

\* new Date(eventDate).toUTCString(), on the dates of the model; a text that
\* is no date gives "Invalid Date"
toUTCString(eventDate) ==
    CASE eventDate = "2020-01-02T03:04:05Z" -> "Thu, 02 Jan 2020 03:04:05 GMT"
      [] eventDate = "2021-06-15T00:00:00Z" -> "Tue, 15 Jun 2021 00:00:00 GMT"
      [] OTHER -> "Invalid Date"

\* rdap.ts line 112: data.events?.find((e) => e.eventAction === action), as
\* the position of the event found, 0 for none
RECURSIVE FindEvent(_, _, _)
FindEvent(events, action, i) ==
    IF i > Len(events) THEN 0
    ELSE IF events[i].eventAction = action THEN i
    ELSE FindEvent(events, action, i + 1)

\* rdap.ts lines 111-114 with '' where no event has the action
findDateOrEmpty(data, action) ==
    LET i == IF data.events.present THEN FindEvent(data.events.items, action, 1) ELSE 0
    IN  IF i # 0 THEN toUTCString(data.events.items[i].eventDate) ELSE ""

\* rdap.ts lines 111-114
findDate(data, action) ==
    LET i == IF data.events.present THEN FindEvent(data.events.items, action, 1) ELSE 0
    IN  IF i # 0 THEN toUTCString(data.events.items[i].eventDate) ELSE "N/A"

\* rdap.ts line 210
lastUpdatedOf(data) ==
    Or(Or(Str(findDate(data, "last changed")), Str(findDate(data, "last update"))),
       Str("N/A")).text

\* rdap.ts lines 135-136, 159-160: entity.vcardArray?.[1] when it is an
\* array, as the list of its items
VcardOf(entity) ==
    IF entity.vcardArray.shape = "properties" THEN ListOf(entity.vcardArray.items)
    ELSE Absent

\* rdap.ts line 137: vcard.find((item) => Array.isArray(item) && item[0] ===
\* name), taking the first such item whose fourth element is a string
RECURSIVE FindPropertyWithString(_, _, _)
FindPropertyWithString(vcard, name, i) ==
    IF i > Len(vcard) THEN 0
    ELSE IF vcard[i].isArray /\ vcard[i].first = name /\ vcard[i].fourth.kind = "string"
    THEN i
    ELSE FindPropertyWithString(vcard, name, i + 1)

\* rdap.ts lines 137, 162, 177: vcard.find((item) => Array.isArray(item) &&
\* item[0] === name), as the position of the item found, 0 for none
RECURSIVE FindProperty(_, _, _)
FindProperty(vcard, name, i) ==
    IF i > Len(vcard) THEN 0
    ELSE IF vcard[i].isArray /\ vcard[i].first = name THEN i
    ELSE FindProperty(vcard, name, i + 1)

\* rdap.ts lines 145, 163, 185: Array.isArray(p) && typeof p[3] === 'string'
\* ? p[3] : undefined
PropertyValue(vcard, name) ==
    LET i == FindProperty(vcard, name, 1)
    IN  IF i # 0 /\ vcard[i].fourth.kind = "string" THEN vcard[i].fourth ELSE Undefined

\* rdap.ts lines 116-153: the result starts as {roles: entity.roles}; name,
\* email and organization are set from the vCard; no other key is set
extractEntityDetails(entity) ==
    LET vcard == VcardOf(entity)
    IN  [handle |-> Undefined,
         roles |-> entity.roles,
         name |-> IF vcard.present THEN PropertyValue(vcard.items, "fn") ELSE Undefined,
         email |-> IF vcard.present THEN PropertyValue(vcard.items, "email")
                   ELSE Undefined,
         organization |-> IF vcard.present THEN PropertyValue(vcard.items, "org")
                          ELSE Undefined]

\* rdap.ts lines 156-158: data.entities?.find((e) =>
\* e.roles?.includes('registrar')), as the position of the entity, 0 for none
RECURSIVE FindRegistrarEntity(_, _)
FindRegistrarEntity(entities, i) ==
    IF i > Len(entities) THEN 0
    ELSE IF entities[i].roles.present /\ Includes(entities[i].roles.items, "registrar")
    THEN i
    ELSE FindRegistrarEntity(entities, i + 1)

\* rdap.ts lines 156-160: registrar?.vcardArray?.[1] when it is an array
RegistrarVcard(data) ==
    LET i == IF data.entities.present THEN FindRegistrarEntity(data.entities.items, 1)
             ELSE 0
    IN  IF i # 0 THEN VcardOf(data.entities.items[i]) ELSE Absent

\* rdap.ts lines 155-164
findRegistrar(data) ==
    LET vcard == RegistrarVcard(data)
    IN  IF ~vcard.present THEN "N/A"
        ELSE LET fn == PropertyValue(vcard.items, "fn")
             IN  IF fn.kind = "string" THEN fn.text ELSE "N/A"

\* rdap.ts lines 166-193
findRegistrarDetails(data) ==
    LET vcard == RegistrarVcard(data)
    IN  IF ~vcard.present
        THEN [url |-> Undefined, abuseEmail |-> Undefined, abusePhone |-> Undefined]
        ELSE [url |-> PropertyValue(vcard.items, "url"),
              abuseEmail |-> PropertyValue(vcard.items, "email"),
              abusePhone |-> PropertyValue(vcard.items, "tel")]

\* A status is the sequence of its characters.  toUpperCase and toLowerCase
\* on the characters of the model
UpperCase == [c \in {"a", "b", "c"} |-> CASE c = "a" -> "A" [] c = "b" -> "B" [] c = "c" -> "C"]
LowerCase == [c \in {"A", "B", "C"} |-> CASE c = "A" -> "a" [] c = "B" -> "b" [] c = "C" -> "c"]
toUpperCase(s) == [i \in 1..Len(s) |-> IF s[i] \in DOMAIN UpperCase THEN UpperCase[s[i]] ELSE s[i]]
toLowerCase(s) == [i \in 1..Len(s) |-> IF s[i] \in DOMAIN LowerCase THEN LowerCase[s[i]] ELSE s[i]]

\* the characters that \s matches
IsWhitespace(c) == c \in {" ", "\t", "\n"}

\* s.replace(/\s+/, ''): the first run of whitespace is removed
RECURSIVE DropRun(_)
DropRun(s) == IF s # <<>> /\ IsWhitespace(Head(s)) THEN DropRun(Tail(s)) ELSE s
RECURSIVE ReplaceFirstRun(_)
ReplaceFirstRun(s) ==
    IF s = <<>> THEN <<>>
    ELSE IF IsWhitespace(Head(s)) THEN DropRun(s)
    ELSE <<Head(s)>> \o ReplaceFirstRun(Tail(s))

\* s.replace(/\s+/g, ''): every run of whitespace is removed
RECURSIVE ReplaceAllRuns(_)
ReplaceAllRuns(s) ==
    IF s = <<>> THEN <<>>
    ELSE IF IsWhitespace(Head(s)) THEN ReplaceAllRuns(DropRun(s))
    ELSE <<Head(s)>> \o ReplaceAllRuns(Tail(s))

\* rdap.ts lines 195-196 with replace(/\s+/, ''), without the g flag
toEppStatusUrlFirstRun(status) ==
    <<"https://icann.org/epp#">> \o ReplaceFirstRun(toLowerCase(status))

\* rdap.ts lines 195-196: the URL is the sequence of the prefix and of the
\* characters after it
toEppStatusUrl(status) ==
    <<"https://icann.org/epp#">> \o ReplaceAllRuns(toLowerCase(status))

\* rdap.ts line 214: status.charAt(0).toUpperCase() + status.slice(1)
StatusLabel(status) ==
    LET charAt0 == IF status = <<>> THEN <<>> ELSE <<Head(status)>>
        slice1 == IF status = <<>> THEN <<>> ELSE Tail(status)
    IN  toUpperCase(charAt0) \o slice1

\* rdap.ts lines 212-216
statusesOf(data) ==
    IF data.status.present
    THEN [i \in 1..Len(data.status.items) |->
            [label |-> StatusLabel(data.status.items[i]),
             url |-> toEppStatusUrl(data.status.items[i])]]
    ELSE <<>>

\* Array.prototype.filter(Boolean) on an array of strings
RECURSIVE FilterBoolean(_)
FilterBoolean(arr) ==
    IF arr = <<>> THEN <<>>
    ELSE IF Head(arr) # "" THEN <<Head(arr)>> \o FilterBoolean(Tail(arr))
    ELSE FilterBoolean(Tail(arr))

\* rdap.ts lines 217-218
nameserversOf(data) ==
    IF data.nameservers.present
    THEN FilterBoolean([i \in 1..Len(data.nameservers.items) |->
                           Or(data.nameservers.items[i].ldhName, Str("N/A")).text])
    ELSE <<>>

\* part_003 line 120, the list as the other copy of the module makes it:
\* .filter(ns => ns !== 'N/A')
RECURSIVE FilterNotNA(_)
FilterNotNA(arr) ==
    IF arr = <<>> THEN <<>>
    ELSE IF Head(arr) # "N/A" THEN <<Head(arr)>> \o FilterNotNA(Tail(arr))
    ELSE FilterNotNA(Tail(arr))
nameserversOfPart003(data) ==
    IF data.nameservers.present
    THEN FilterNotNA([i \in 1..Len(data.nameservers.items) |->
                         Or(data.nameservers.items[i].ldhName, Str("N/A")).text])
    ELSE <<>>

\* rdap.ts lines 171 and 198: the first read of a property of data, a
\* TypeError when data is null
normalizeRdapResponseThrows(data) == data.json = "null"

\* rdap.ts lines 107-224
normalizeRdapResponse(data, rdapServerUrl) ==
    LET registrarDetails == findRegistrarDetails(data)
        entities == IF data.entities.present
                    THEN [i \in 1..Len(data.entities.items) |->
                            extractEntityDetails(data.entities.items[i])]
                    ELSE <<>>
    IN  [domainName |-> Or(data.ldhName, Str("N/A")).text,
         registrar |-> findRegistrar(data),
         registrarUrl |-> registrarDetails.url,
         registrarAbuseEmail |-> registrarDetails.abuseEmail,
         registrarAbusePhone |-> registrarDetails.abusePhone,
         dnssec |-> IF data.secureDNS = "signed" THEN "Signed" ELSE "Unsigned",
         registeredOn |-> findDate(data, "registration"),
         expiresOn |-> findDate(data, "expiration"),
         lastUpdated |-> lastUpdatedOf(data),
         lastTransferred |-> findDate(data, "transfer"),
         statuses |-> statusesOf(data),
         nameservers |-> nameserversOf(data),
         entities |-> entities,
         rdapServer |-> rdapServerUrl]

-----------------------------------------------------------------------------
(* ip-rdap: the CIDR notation that lookupIP builds (lines 246-262)           *)
(* A JavaScript number that is an integer of up to 33 bits is kept as      *)
(* hi * 65536 + lo with lo in 0..65535, hi of either sign.                  *)

Wide(hi, lo) == [hi |-> hi + (lo \div 65536), lo |-> lo % 65536]
WideMinus(a, b) == Wide(a.hi - b.hi, a.lo - b.lo)
WidePlusOne(a) == Wide(a.hi, a.lo + 1)
WideLeq(a, b) == a.hi < b.hi \/ (a.hi = b.hi /\ a.lo <= b.lo)
WidePow2(k) == IF k < 16 THEN Wide(0, 2 ^ k) ELSE Wide(2 ^ (k - 16), 0)

\* ip-rdap line 168 with an unsigned shift: parts[0] * 2^24 and no wrap
ipToIntUnsigned(parts) == Wide(parts[1] * 256 + parts[2], parts[3] * 256 + parts[4])

\* ip-rdap lines 166-169: `parts[0] << 24` is a signed 32-bit integer, so a
\* first part of 128 or more gives (parts[0] - 256) * 2^24; the other shifts
\* stay below 2^24 and `+` adds numbers without wrapping
ipToInt(parts) ==
    LET shifted24 == IF parts[1] >= 128 THEN parts[1] - 256 ELSE parts[1]
    IN  Wide(shifted24 * 256 + parts[2], parts[3] * 256 + parts[4])

\* the least k with size <= 2^k, for a size of 1 or more
CeilLog2(size) ==
    CHOOSE k \in 0..33 :
        /\ WideLeq(size, WidePow2(k))
        /\ \A j \in 0..(k - 1) : ~WideLeq(size, WidePow2(j))

\* ip-rdap lines 254-255: Math.floor(32 - Math.log2(size)) as the template
\* prints it; log2 of 0 is -Infinity, of a negative number NaN, and for a
\* size that is no power of 2 the floor takes 32 - log2(size) down
PrefixLength(size) ==
    IF size.hi < 0 THEN [kind |-> "NaN", n |-> 0]
    ELSE IF size = Wide(0, 0) THEN [kind |-> "Infinity", n |-> 0]
    ELSE [kind |-> "integer", n |-> 32 - CeilLog2(size)]

NoCidr == [defined |-> FALSE, address |-> <<>>, prefix |-> [kind |-> "NaN", n |-> 0]]

\* ip-rdap lines 246-262: the addresses are given by their parts, <<>> for
\* an address that the response does not have
BuildCidr(version, startAddress, endAddress) ==
    IF startAddress = <<>> \/ endAddress = <<>> THEN NoCidr
    ELSE IF version = "IPv4"
    THEN LET startInt == ipToInt(startAddress)
             endInt == ipToInt(endAddress)
             size == WidePlusOne(WideMinus(endInt, startInt))
         IN  [defined |-> TRUE, address |-> startAddress, prefix |-> PrefixLength(size)]
    ELSE [defined |-> TRUE, address |-> startAddress,
          prefix |-> [kind |-> "integer", n |-> 64]]

-----------------------------------------------------------------------------
(* The pure functions, applied to arguments drawn from bounded sets.        *)
(* Each argument comes with what it stands for, written by hand, so that    *)
(* the result of the code can be compared with it.                          *)

MaxServices == 2   \* services in a bootstrap table

\* the string of the decimal digits d, and the range token "a-b"
Chars(d) == [i \in 1..Len(d) |-> DigitChars[d[i] + 1]]
Dash(a, b) == Chars(a) \o <<"-">> \o Chars(b)

TablesOver(pool) == UNION {[1..n -> pool] : n \in 0..MaxServices}

\* Arguments of validateASN: the argument, whether it is a decimal integer
\* (a number, or a string that is an optional sign and digits, white space
\* around it aside), and its value.
AsnArg(arg, numeric, value) == [arg |-> arg, numeric |-> numeric, value |-> value]
AsnArgs ==
    {AsnArg(StrArg(Chars(<<0>>)), TRUE, NumOf(<<0>>)),
     AsnArg(StrArg(Chars(<<1>>)), TRUE, NumOf(<<1>>)),
     AsnArg(StrArg(Chars(<<6, 5, 5, 3, 4>>)), TRUE, NumOf(<<6, 5, 5, 3, 4>>)),
     AsnArg(StrArg(Chars(<<6, 5, 5, 3, 5>>)), TRUE, NumOf(<<6, 5, 5, 3, 5>>)),
     AsnArg(StrArg(Chars(<<6, 5, 5, 3, 6>>)), TRUE, NumOf(<<6, 5, 5, 3, 6>>)),
     AsnArg(StrArg(Chars(<<4, 2, 9, 4, 9, 6, 7, 2, 9, 4>>)), TRUE,
            NumOf(<<4, 2, 9, 4, 9, 6, 7, 2, 9, 4>>)),
     AsnArg(StrArg(Chars(<<4, 2, 9, 4, 9, 6, 7, 2, 9, 5>>)), TRUE,
            NumOf(<<4, 2, 9, 4, 9, 6, 7, 2, 9, 5>>)),
     AsnArg(StrArg(Chars(<<4, 2, 9, 4, 9, 6, 7, 2, 9, 6>>)), TRUE,
            NumOf(<<4, 2, 9, 4, 9, 6, 7, 2, 9, 6>>)),
     AsnArg(StrArg(<<"-", "1">>), TRUE, MkNum(TRUE, <<1>>)),
     AsnArg(StrArg(<<" ", "1", "5", "1", "6", "9", " ">>), TRUE,
            NumOf(<<1, 5, 1, 6, 9>>)),
     AsnArg(StrArg(<<"0", "0", "7">>), TRUE, NumOf(<<7>>)),
     AsnArg(StrArg(<<>>), FALSE, NaN),
     AsnArg(StrArg(<<"a", "b", "c">>), FALSE, NaN),
     AsnArg(StrArg(<<"A", "S", "1", "5", "1", "6", "9">>), FALSE, NaN),
     AsnArg(StrArg(<<"1", "2", "a", "b", "c">>), FALSE, NaN),
     AsnArg(StrArg(<<"6", "5", "5", "3", "5", "x">>), FALSE, NaN),
     AsnArg(NumArg(NumOf(<<0>>)), TRUE, NumOf(<<0>>)),
     AsnArg(NumArg(NumOf(<<1>>)), TRUE, NumOf(<<1>>)),
     AsnArg(NumArg(NumOf(<<6, 5, 5, 3, 5>>)), TRUE, NumOf(<<6, 5, 5, 3, 5>>)),
     AsnArg(NumArg(NumOf(<<4, 2, 9, 4, 9, 6, 7, 2, 9, 4>>)), TRUE,
            NumOf(<<4, 2, 9, 4, 9, 6, 7, 2, 9, 4>>)),
     AsnArg(NumArg(NumOf(<<4, 2, 9, 4, 9, 6, 7, 2, 9, 5>>)), TRUE,
            NumOf(<<4, 2, 9, 4, 9, 6, 7, 2, 9, 5>>)),
     AsnArg(NumArg(NumOf(<<4, 2, 9, 4, 9, 6, 7, 2, 9, 6>>)), TRUE,
            NumOf(<<4, 2, 9, 4, 9, 6, 7, 2, 9, 6>>)),
     AsnArg(NumArg(MkNum(TRUE, <<1>>)), TRUE, MkNum(TRUE, <<1>>)),
     AsnArg(NumArg(NaN), FALSE, NaN)}

\* Services of an ASN bootstrap file: the range tokens, the URLs, and the
\* queried AS numbers that the ranges hold.
AsnService(ranges, urls, holds) == [ranges |-> ranges, urls |-> urls, holds |-> holds]
AsnQueries ==
    {NumOf(<<1>>), NumOf(<<1, 8, 7, 6>>), NumOf(<<1, 8, 7, 7>>), NumOf(<<1, 9, 0, 2>>),
     NumOf(<<2, 0, 4, 3>>), NumOf(<<2, 0, 4, 4>>), NumOf(<<6, 5, 5, 3, 6>>),
     NumOf(<<6, 5, 5, 5, 1>>), NumOf(<<6, 5, 5, 5, 2>>),
     NumOf(<<4, 1, 9, 9, 9, 9, 9, 9, 9, 9>>), NumOf(<<4, 2, 0, 0, 0, 0, 0, 0, 0, 0>>),
     NumOf(<<4, 2, 9, 4, 9, 6, 7, 2, 9, 4>>)}
AsnServices ==
    {AsnService(<<Dash(<<1>>, <<1, 8, 7, 6>>), Chars(<<2, 0, 4, 3>>)>>,
                <<"https://rdap.arin.net/registry/", "http://rdap.arin.net/registry/">>,
                {NumOf(<<1>>), NumOf(<<1, 8, 7, 6>>), NumOf(<<2, 0, 4, 3>>)}),
     AsnService(<<Dash(<<1, 8, 7, 7>>, <<1, 9, 0, 1>>)>>,
                <<"https://rdap.db.ripe.net/">>,
                {NumOf(<<1, 8, 7, 7>>)}),
     AsnService(<<Dash(<<1, 8, 7, 6>>, <<1, 8, 7, 7>>)>>,
                <<"https://rdap.lacnic.net/rdap/">>,
                {NumOf(<<1, 8, 7, 6>>), NumOf(<<1, 8, 7, 7>>)}),
     AsnService(<<Dash(<<6, 5, 5, 3, 6>>, <<6, 5, 5, 5, 1>>),
                  Dash(<<4, 2, 0, 0, 0, 0, 0, 0, 0, 0>>, <<4, 2, 9, 4, 9, 6, 7, 2, 9, 4>>)>>,
                <<"https://rdap.apnic.net/">>,
                {NumOf(<<6, 5, 5, 3, 6>>), NumOf(<<6, 5, 5, 5, 1>>),
                 NumOf(<<4, 2, 0, 0, 0, 0, 0, 0, 0, 0>>),
                 NumOf(<<4, 2, 9, 4, 9, 6, 7, 2, 9, 4>>)})}

\* Services of a DNS bootstrap file, and the TLDs asked for.
DnsService(ranges, urls) == [ranges |-> ranges, urls |-> urls]
TldQueries == {"co", "CO", "Co", "com", "xyz", "org"}
DnsServices ==
    {DnsService(<<"co">>, <<"https://example/">>),
     DnsService(<<"com", "CO">>, <<"https://rdap.verisign.com/com/v1/",
                                   "http://rdap.verisign.com/com/v1/">>),
     DnsService(<<"xyz", "co">>, <<"https://rdap.centralnic.com/xyz/">>),
     DnsService(<<"net">>, <<"https://rdap.verisign.com/net/v1/">>)}

\* Services of an IPv4 and of an IPv6 bootstrap file: the CIDR strings (some
\* malformed), the URLs, and the queried addresses that the well-formed CIDRs
\* contain.
IpService(ranges, urls, holds) == [ranges |-> ranges, urls |-> urls, holds |-> holds]
Ip4Queries ==
    {IPv4Text(192, 0, 2, 10), IPv4Text(192, 0, 3, 10), IPv4Text(193, 0, 0, 1),
     IPv4Text(8, 8, 8, 8), IPv4Text(200, 1, 2, 3), IPv4Text(204, 0, 0, 1)}
Ip4Services ==
    {IpService(<<Cidr4(192, 0, 2, 0, 24)>>, <<"https://rdap.example/">>,
               {IPv4Text(192, 0, 2, 10)}),
     IpService(<<Cidr4(300, 0, 0, 0, 8), Cidr4(192, 0, 0, 0, 7)>>,
               <<"https://rdap.db.ripe.net/", "http://rdap.db.ripe.net/">>,
               {IPv4Text(192, 0, 2, 10), IPv4Text(192, 0, 3, 10), IPv4Text(193, 0, 0, 1)}),
     IpService(<<Cidr4(8, 0, 0, 0, 33), JunkText>>, <<"https://rdap.bad/">>, {}),
     IpService(<<Cidr4(8, 0, 0, 0, 8), Cidr4(200, 0, 0, 0, 6)>>,
               <<"https://rdap.arin.net/registry/">>,
               {IPv4Text(8, 8, 8, 8), IPv4Text(200, 1, 2, 3)})}
Ip6Queries ==
    {IPv6Text(<<8193, 3512, 0, 0, 0, 0, 0, 1>>), IPv6Text(<<8193, 3513, 0, 0, 0, 0, 0, 1>>),
     IPv6Text(<<8193, 3514, 0, 0, 0, 0, 0, 1>>), IPv6Text(<<10752, 0, 0, 0, 0, 0, 0, 1>>)}
Ip6Services ==
    {IpService(<<Cidr6(<<8193, 3512, 0, 0, 0, 0, 0, 0>>, 32)>>, <<"https://rdap.example/">>,
               {IPv6Text(<<8193, 3512, 0, 0, 0, 0, 0, 1>>)}),
     IpService(<<JunkText, Cidr6(<<8193, 3512, 0, 0, 0, 0, 0, 0>>, 31)>>,
               <<"https://rdap.apnic.net/", "http://rdap.apnic.net/">>,
               {IPv6Text(<<8193, 3512, 0, 0, 0, 0, 0, 1>>),
                IPv6Text(<<8193, 3513, 0, 0, 0, 0, 0, 1>>)}),
     IpService(<<Cidr6(<<8193, 3512, 0, 0, 0, 0, 0, 0>>, 129)>>, <<"https://rdap.bad/">>, {}),
     IpService(<<Cidr6(<<10752, 0, 0, 0, 0, 0, 0, 0>>, 12)>>,
               <<"https://rdap.db.ripe.net/">>,
               {IPv6Text(<<10752, 0, 0, 0, 0, 0, 0, 1>>)})}

Loaded(services) == [loaded |-> TRUE, services |-> services]
NotLoaded == [loaded |-> FALSE, services |-> <<>>]

EvalValidateASN ==
    /\ eval.fn = "none"
    /\ \E a \in AsnArgs :
          eval' = [fn |-> "validateASN", in |-> a, out |-> validateASN(a.arg)]
    /\ UNCHANGED <<cacheVars, lookupVars>>

EvalFindRdapServerForASN ==
    /\ eval.fn = "none"
    /\ \E services \in TablesOver(AsnServices), asn \in AsnQueries :
          eval' = [fn |-> "findRdapServerForASN", services |-> services, asn |-> asn,
                   out |-> findRdapServerForASN(services, asn)]
    /\ UNCHANGED <<cacheVars, lookupVars>>

EvalFindRdapServerUrl ==
    /\ eval.fn = "none"
    /\ \E cache \in {Loaded(t) : t \in TablesOver(DnsServices)} \cup {NotLoaded},
          tld \in TldQueries :
          eval' = [fn |-> "findRdapServerUrl", cache |-> cache, tld |-> tld,
                   out |-> findRdapServerUrl(cache, tld)]
    /\ UNCHANGED <<cacheVars, lookupVars>>

EvalFindRdapServerForIP ==
    /\ eval.fn = "none"
    /\ \/ \E services \in TablesOver(Ip4Services), ip \in Ip4Queries :
             eval' = [fn |-> "findRdapServerForIP", services |-> services, ip |-> ip,
                      version |-> "IPv4",
                      out |-> findRdapServerForIP(Loaded(services), NotLoaded, ip, "IPv4")]
       \/ \E services \in TablesOver(Ip6Services), ip \in Ip6Queries :
             eval' = [fn |-> "findRdapServerForIP", services |-> services, ip |-> ip,
                      version |-> "IPv6",
                      out |-> findRdapServerForIP(NotLoaded, Loaded(services), ip, "IPv6")]
    /\ UNCHANGED <<cacheVars, lookupVars>>

\* The responses normalizeRdapResponse is given: one part of the response
\* varies at a time over the response that has none of them.
NoData ==
    [json |-> "object", ldhName |-> Undefined, secureDNS |-> "absent", events |-> Absent,
     nameservers |-> Absent, status |-> Absent, entities |-> Absent]

\* the body that is the JSON null: response.json() gives null
NullData == [NoData EXCEPT !.json = "null"]

ListsUpTo2(S) == {<<>>} \cup {<<a>> : a \in S} \cup {<<a, b>> : a \in S, b \in S}

Events ==
    {[eventAction |-> a, eventDate |-> d] :
        a \in {"last changed", "last update", "registration"},
        d \in {"2020-01-02T03:04:05Z", "2021-06-15T00:00:00Z", "soon"}}

Nameservers ==
    {[ldhName |-> n] :
        n \in {Undefined, Str(""), Str("ns1.example.com"), Str("ns2.example.com")}}

ClientTransferProhibited ==
    <<"c", "l", "i", "e", "n", "t", " ", "t", "r", "a", "n", "s", "f", "e", "r", " ",
      "p", "r", "o", "h", "i", "b", "i", "t", "e", "d">>

StatusChars == {"a", "B", " ", "\t"}
Statuses ==
    {<<>>} \cup {<<a>> : a \in StatusChars}
           \cup {<<a, b>> : a \in StatusChars, b \in StatusChars}
           \cup {<<a, b, c>> : a \in StatusChars, b \in StatusChars, c \in StatusChars}
           \cup {ClientTransferProhibited}
StatusLists ==
    {<<s>> : s \in Statuses}
        \cup {<<>>, <<ClientTransferProhibited, <<"a", "B">>>>,
              <<<<"a", "B">>, <<"a", "B">>, <<"B", " ", "a">>>>}

\* a vCard property [name, {}, type, value], the array being as long as its
\* value asks, and an item of the vCard that is a text
Property(name, value) == [isArray |-> TRUE, first |-> name, fourth |-> value]
TextItem == [isArray |-> FALSE, first |-> "f", fourth |-> Undefined]

Vcards ==
    {<<>>,
     <<Property("fn", Str("Registrar A"))>>,
     <<Property("fn", Str("Registrar A")), Property("fn", Str("Registrar B"))>>,
     <<TextItem, Property("fn", Str("Registrar B"))>>,
     <<Property("fn", EmptyArray), Property("fn", Str("Registrar B"))>>,
     <<Property("fn", Undefined)>>,
     <<Property("org", Str("Org A")), Property("email", Str("a@example.com")),
       Property("url", Str("https://a.example")), Property("tel", Str("+1.5550100")),
       Property("fn", Str("Registrar A"))>>,
     <<Property("email", Str("a@example.com")), Property("email", Str("b@example.com")),
       Property("url", EmptyArray), Property("org", Undefined)>>}

VcardArrays ==
    {[shape |-> s, items |-> <<>>] : s \in {"absent", "short", "text"}}
        \cup {[shape |-> "properties", items |-> v] : v \in Vcards}

Roles ==
    {Absent, ListOf(<<>>), ListOf(<<"registrar">>), ListOf(<<"technical", "registrar">>),
     ListOf(<<"abuse">>)}

EntitiesWith(handles) ==
    {[handle |-> h, roles |-> r, vcardArray |-> v] :
        h \in handles, r \in Roles, v \in VcardArrays}

EntityLists ==
    {<<>>} \cup {<<e>> : e \in EntitiesWith({Undefined, Str("H1")})}
           \cup {<<a, b>> : a \in EntitiesWith({Str("H1")}),
                            b \in EntitiesWith({Str("H2")})}

RdapResponses ==
    {[NoData EXCEPT !.ldhName = n, !.secureDNS = s] :
        n \in {Undefined, Str(""), Str("example.com")},
        s \in {"absent", "empty", "unsigned", "signed"}}
        \cup {[NoData EXCEPT !.events = ListOf(l)] : l \in ListsUpTo2(Events)}
        \cup {[NoData EXCEPT !.nameservers = ListOf(l)] :
                l \in ListsUpTo2(Nameservers)
                    \cup {<<a, b, c>> : a \in Nameservers, b \in Nameservers,
                                        c \in Nameservers}}
        \cup {[NoData EXCEPT !.status = ListOf(l)] : l \in StatusLists}
        \cup {[NoData EXCEPT !.entities = ListOf(l)] : l \in EntityLists}
        \cup {NullData}

EvalNormalizeRdapResponse ==
    /\ eval.fn = "none"
    /\ \E data \in RdapResponses, rdapServerUrl \in {Undefined, Str("https://example/")} :
          /\ rdapServerUrl = Undefined \/ data = NoData
          /\ eval' = [fn |-> "normalizeRdapResponse", data |-> data,
                      threw |-> normalizeRdapResponseThrows(data),
                      out |-> IF normalizeRdapResponseThrows(data) THEN Undefined
                              ELSE normalizeRdapResponse(data, rdapServerUrl)]
    /\ UNCHANGED <<cacheVars, lookupVars>>

\* The networks of a response to lookupIP: IPv4 addresses around the
\* boundaries of the first part, and IPv6 addresses by their groups
NetworkAddresses4 ==
    {<<0, 0, 0, 0>>, <<8, 0, 0, 0>>, <<8, 0, 0, 255>>, <<8, 8, 8, 8>>,
     <<8, 255, 255, 255>>, <<64, 0, 0, 0>>, <<127, 255, 255, 255>>, <<128, 0, 0, 0>>,
     <<128, 0, 0, 255>>, <<191, 255, 255, 255>>, <<192, 168, 0, 0>>,
     <<192, 168, 255, 255>>, <<255, 255, 255, 255>>}
NetworkAddresses6 == {<<8193, 3512>>, <<8193, 3512, 65535>>}

EvalBuildCidr ==
    /\ eval.fn = "none"
    /\ \/ \E s \in NetworkAddresses4 \cup {<<>>}, e \in NetworkAddresses4 \cup {<<>>} :
             eval' = [fn |-> "BuildCidr", version |-> "IPv4", startAddress |-> s,
                      endAddress |-> e, out |-> BuildCidr("IPv4", s, e)]
       \/ \E s \in NetworkAddresses6 \cup {<<>>}, e \in NetworkAddresses6 \cup {<<>>} :
             eval' = [fn |-> "BuildCidr", version |-> "IPv6", startAddress |-> s,
                      endAddress |-> e, out |-> BuildCidr("IPv6", s, e)]
    /\ UNCHANGED <<cacheVars, lookupVars>>

\* The texts isPrivateIP is asked about: IPv4 addresses on both sides of
\* every boundary of the private ranges, the same with a prefix length, and
\* texts that are no address
PrivateProbes ==
    {IPv4Text(a, b, c, d) :
        a \in {9, 10, 11, 126, 127, 128, 169, 172, 192},
        b \in {0, 15, 16, 31, 32, 167, 168, 169, 253, 254, 255},
        c \in {0, 255}, d \in {0, 255}}
        \cup {Cidr4(10, 0, 0, 1, 4), Cidr4(10, 0, 0, 1, 24), Cidr4(8, 8, 8, 8, 24),
              IPv4Text(256, 1, 1, 1), JunkText,
              [fam |-> "v4", parts |-> <<10, 0, 0>>, prefix |-> -1],
              IPv6Text(<<64512, 0, 0, 0, 0, 0, 0, 1>>),
              IPv6Text(<<8193, 3512, 0, 0, 0, 0, 0, 1>>)}

EvalIsPrivateIP ==
    /\ eval.fn = "none"
    /\ \E ip \in PrivateProbes :
          eval' = [fn |-> "isPrivateIP", ip |-> ip, out |-> isPrivateIP(ip)]
    /\ UNCHANGED <<cacheVars, lookupVars>>

NextPure ==
    \/ EvalValidateASN
    \/ EvalFindRdapServerForASN
    \/ EvalFindRdapServerUrl
    \/ EvalFindRdapServerForIP
    \/ EvalNormalizeRdapResponse
    \/ EvalBuildCidr
    \/ EvalIsPrivateIP

SpecPure == Init /\ [][NextPure]_vars

-----------------------------------------------------------------------------
(* The lookup flows: lookupIP (ip-rdap), lookupASN (asn-rdap) and the route  *)
(* GET /api/lookup/[domain].                                                 *)
(* One lookup is followed from its call to its end, through the bootstrap    *)
(* cache of its flow, the resolver and the RDAP query. req.fetched is every  *)
(* request the lookup sent to the network. The IANA files are the same at    *)
(* every fetch.                                                              *)

Ip4Registry ==
    <<IpService(<<Cidr4(8, 0, 0, 0, 8)>>, <<"https://rdap.arin.net/registry/">>, {}),
      IpService(<<Cidr4(200, 0, 0, 0, 7)>>, <<"https://rdap.lacnic.net/rdap">>, {})>>
Ip6Registry ==
    <<IpService(<<Cidr6(<<8193, 3512, 0, 0, 0, 0, 0, 0>>, 32)>>,
                <<"https://rdap.apnic.net/">>, {})>>
AsnRegistry ==
    <<AsnService(<<Dash(<<1>>, <<1, 8, 7, 6>>), Chars(<<1, 5, 1, 6, 9>>)>>,
                 <<"https://rdap.arin.net/registry/">>, {}),
      AsnService(<<Dash(<<6, 5, 5, 3, 6>>, <<6, 5, 5, 5, 1>>),
                   Dash(<<4, 2, 0, 0, 0, 0, 0, 0, 0, 0>>, <<4, 2, 9, 4, 9, 6, 7, 2, 9, 4>>)>>,
                 <<"https://rdap.apnic.net">>, {})>>
DnsRegistry ==
    <<DnsService(<<"co">>, <<"https://example/">>),
      DnsService(<<"com", "net">>, <<"https://rdap.verisign.com/com/v1">>)>>

\* The addresses looked up, each with the kind of address it is.
IpInput(ip, class) == [ip |-> ip, class |-> class]
IpInputs ==
    {IpInput(IPv4Text(8, 8, 8, 8), "public"),
     IpInput(IPv4Text(200, 1, 2, 3), "public"),
     IpInput(IPv4Text(11, 0, 0, 1), "public"),
     IpInput(IPv4Text(172, 15, 255, 255), "public"),
     IpInput(IPv4Text(172, 32, 0, 0), "public"),
     IpInput(IPv4Text(192, 169, 0, 1), "public"),
     IpInput(IPv4Text(223, 255, 255, 255), "public"),
     IpInput(IPv4Text(10, 0, 0, 1), "private"),
     IpInput(IPv4Text(10, 255, 255, 255), "private"),
     IpInput(IPv4Text(172, 16, 0, 1), "private"),
     IpInput(IPv4Text(172, 31, 255, 255), "private"),
     IpInput(IPv4Text(192, 168, 1, 1), "private"),
     IpInput(IPv4Text(127, 0, 0, 1), "private"),
     IpInput(IPv4Text(169, 254, 1, 1), "private"),
     IpInput(IPv4Text(0, 0, 0, 0), "reserved"),
     IpInput(IPv4Text(0, 1, 2, 3), "reserved"),
     IpInput(IPv4Text(224, 0, 0, 1), "reserved"),
     IpInput(IPv4Text(239, 255, 255, 255), "reserved"),
     IpInput(IPv4Text(240, 0, 0, 1), "reserved"),
     IpInput(IPv4Text(255, 255, 255, 255), "reserved"),
     IpInput(IPv4Text(256, 1, 1, 1), "invalid"),
     IpInput(JunkText, "invalid"),
     IpInput(IPv6Text(<<8193, 3512, 0, 0, 0, 0, 0, 1>>), "public"),
     IpInput(IPv6Text(<<9734, 18176, 0, 0, 0, 0, 0, 1>>), "public"),
     IpInput(IPv6Text(<<0, 0, 0, 0, 0, 0, 0, 2>>), "public"),
     IpInput(IPv6Text(<<64511, 0, 0, 0, 0, 0, 0, 1>>), "public"),
     IpInput(IPv6Text(<<65216, 0, 0, 0, 0, 0, 0, 1>>), "public"),
     IpInput(IPv6Text(<<64512, 0, 0, 0, 0, 0, 0, 1>>), "private"),
     IpInput(IPv6Text(<<65023, 0, 0, 0, 0, 0, 0, 1>>), "private"),
     IpInput(IPv6Text(<<65152, 0, 0, 0, 0, 0, 0, 1>>), "private"),
     IpInput(IPv6Text(<<65215, 0, 0, 0, 0, 0, 0, 1>>), "private"),
     IpInput(IPv6Text(<<0, 0, 0, 0, 0, 0, 0, 1>>), "private"),
     IpInput(IPv6Text(<<65280, 0, 0, 0, 0, 0, 0, 1>>), "reserved"),
     IpInput(IPv6Text(<<65535, 0, 0, 0, 0, 0, 0, 1>>), "reserved"),
     IpInput(IPv6Text(<<0, 0, 0, 0, 0, 0, 0, 0>>), "reserved"),
     IpInput(IPv6Text(<<8193, 3512, 0, 0, 0, 0, 0>>), "invalid"),
     IpInput(IPv6Text(<<65536, 0, 0, 0, 0, 0, 0, 1>>), "invalid")}

\* The domain names looked up. A name is kept as the strings between its
\* dots: "example.co" is <<"example", "co">>, "example." is <<"example", "">>,
\* the empty string is <<"">>.
DomainInputs ==
    {<<"">>, <<"localhost">>, <<"example", "">>, <<"example", "co">>, <<"", "co">>,
     <<"example", "CO">>, <<"www", "example", "net">>, <<"example", "org">>}

\* part_007 lines 43-52: the checks of the route before the try block;
\* `domainName.match(/\.([^.]+)$/)` matches when the name has a dot and
\* something after its last dot, which is then the TLD.
HasTld(domain) == Len(domain) >= 2 /\ domain[Len(domain)] # ""
TldOf(domain) == domain[Len(domain)]
DomainRejection(domain) ==
    IF domain = <<"">> THEN "Domain name is required."
    ELSE IF ~HasTld(domain) THEN "is not a valid domain format."
    ELSE ""

\* ip-rdap lines 208-222: the checks of lookupIP before the try block; the
\* message of the error thrown, "" when none is.
IPRejectionFormatOnly(ip) ==
    LET validation == validateIP(ip)
    IN  IF ~validation.isValid THEN validation.error ELSE ""
IPRejection(ip) ==
    LET validation == validateIP(ip)
    IN  IF ~validation.isValid THEN validation.error
        ELSE IF isPrivateIP(validation.normalized)
        THEN "Private IP addresses are not supported"
        ELSE IF isReservedIP(validation.normalized)
        THEN "Reserved IP addresses are not supported"
        ELSE ""

\* part_000 lines 395-398: the validation of lookupASN before the try block
\* (normalized is 0 for no valid ASN).
ASNRejection(asn) ==
    LET validation == validateASN(asn)
    IN  IF ~validation.isValid \/ validation.normalized = N0
        THEN IF validation.error = "" THEN "Invalid ASN" ELSE validation.error
        ELSE ""

Throws == {"throw: RDAP server list has not been initialized.",
           "throw: Bootstrap data not loaded"}

\* The lookup r ends at once: a library function throws the error, a route
\* answers with the status.
Ends(r, status, error) ==
    [r EXCEPT !.pc = "done", !.outcome = "error", !.status = status, !.error = error]

\* The lookup r ends with its result: the library function returns the
\* record, the route answers with it.
Returns(r, status) == [r EXCEPT !.pc = "done", !.outcome = "result", !.status = status]

\* `rdapServerUrl.endsWith('/') ? rdapServerUrl : `${rdapServerUrl}/``; of the
\* URLs of the tables, these are the ones without a slash at their end.
SlashAdded ==
    [url \in {"https://rdap.lacnic.net/rdap", "https://rdap.apnic.net",
              "https://rdap.verisign.com/com/v1"} |->
        CASE url = "https://rdap.lacnic.net/rdap" -> "https://rdap.lacnic.net/rdap/"
          [] url = "https://rdap.apnic.net" -> "https://rdap.apnic.net/"
          [] url = "https://rdap.verisign.com/com/v1" -> "https://rdap.verisign.com/com/v1/"]
EndsWithSlash(url) == url \notin DOMAIN SlashAdded
BaseUrlAsIs(url) == url
BaseUrl(url) == IF EndsWithSlash(url) THEN url ELSE SlashAdded[url]

\* What follows the resolver in every flow: no server ends the lookup, a
\* server is sent the query at `<server>/<path>/<identifier>`.
Resolved(r, server, path, status, error) ==
    IF server \in Throws
    THEN Ends([r EXCEPT !.resolved = TRUE], IF r.flow = "domain" THEN 500 ELSE 0, server)
    ELSE IF server = Null
    THEN Ends([r EXCEPT !.resolved = TRUE], status, error)
    ELSE [r EXCEPT !.pc = "querying", !.resolved = TRUE, !.server = server,
                   !.queries = @ + 1,
                   !.fetched = @ \cup {Fetch(BaseUrl(server), path)}]

\* what stands for a table that is loaded, in the variables of the caches
TheFile == 1
TableOf(held, registry) == IF held = NoTable THEN NotLoaded ELSE Loaded(registry)

\* the statuses of the RDAP servers' responses that are not ok
ErrorStatuses == {404, 429}

lookupFrame == <<clock, calls, eval, geo, page>>

\* The body of a response: an object with its description and title, the
\* JSON null, or a text that is not JSON.
ObjectBody(description, title) ==
    [shape |-> "object", description |-> description, title |-> title]
NullBody == [shape |-> "null", description |-> Undefined, title |-> Undefined]
NotJsonBody == [shape |-> "notjson", description |-> Undefined, title |-> Undefined]
Bodies ==
    {ObjectBody(d, t) :
        d \in {Undefined, Str(""), Str("Object not found"), Str("Invalid IP address"),
               EmptyArray, ArrayOf("Object not found")},
        t \in {Undefined, Str(""), Str("Not Found"), Str("No RDAP server found")}}
    \cup {NullBody, NotJsonBody}

\* `HTTP ${response.status}: ${response.statusText}`
HttpFallback(status) ==
    CASE status = 404 -> "HTTP 404: Not Found"
      [] status = 429 -> "HTTP 429: Too Many Requests"

\* ip-rdap lines 144-153 and part_000 lines 337-346: the message of the
\* error thrown for a response that is not ok; reading a property of null
\* throws, which the inner catch swallows.
QueryErrorMessage(status, body) ==
    IF body.shape # "object" THEN HttpFallback(status)
    ELSE Or(Or(body.description, body.title), Str(HttpFallback(status))).text

\* the message of the TypeError for a property read of null
NullRead == "Cannot read properties of null"

\* lines 144-160 and 238-288: what becomes of the lookup once the body of
\* the response is read
QueryOutcome(r, body) ==
    IF r.response = 200
    THEN CASE body.shape = "object" -> Returns([r EXCEPT !.body = body], 0)
           [] body.shape = "null" -> Ends([r EXCEPT !.body = body], 0, NullRead)
           [] body.shape = "notjson" -> Ends([r EXCEPT !.body = body], 0, "json failed")
    ELSE Ends([r EXCEPT !.body = body], 0, QueryErrorMessage(r.response, body))

(* lookupIP *)

\* ip-rdap lines 229-236: the resolver, then the query is sent
IPResolved(r, v4, v6) ==
    LET validation == validateIP(r.ip)
    IN  Resolved(r, findRdapServerForIP(TableOf(v4, Ip4Registry), TableOf(v6, Ip6Registry),
                                        validation.normalized, validation.version),
                 "ip", 0, "No RDAP server found for IP")

\* ip-rdap lines 206-227 and 56-68: the checks, then fetchBootstrapData up to
\* its await
LookupIPBegin(input) ==
    /\ req.pc \in {"idle", "done"}
    /\ LET r == [IdleReq EXCEPT !.flow = "ip", !.ip = input.ip, !.class = input.class,
                                !.now = clock]
           rejection == IPRejection(input.ip)
       IN  req' = IF rejection # "" THEN Ends(r, 0, rejection)
                  ELSE IF IPIsFresh(ipv4BootstrapCache, ipv6BootstrapCache,
                                    bootstrapCacheExpiry, clock)
                  THEN IPResolved(r, ipv4BootstrapCache, ipv6BootstrapCache)
                  ELSE [r EXCEPT !.pc = "bootFetching",
                                 !.fetched = {Fetch(IANA_BOOTSTRAP_URLS["ipv4"], ""),
                                              Fetch(IANA_BOOTSTRAP_URLS["ipv6"], "")}]
    /\ UNCHANGED <<rdapServersCache, dnsFetchedAt>>
    /\ UNCHANGED <<ipVarsOfCache, cacheVarsOfBootstrap, lookupFrame>>

\* ip-rdap lines 65-72 and 282-288
LookupIPBootFetchSettles(o4, o6) ==
    /\ req.pc = "bootFetching"
    /\ req.flow = "ip"
    /\ req' = IF o4 = "ok" /\ o6 = "ok" THEN [req EXCEPT !.pc = "bootParsing"]
              ELSE IF "neterr" \in {o4, o6} THEN Ends(req, 0, "fetch failed")
              ELSE Ends(req, 0, "Failed to fetch IANA bootstrap data")
    /\ UNCHANGED <<rdapServersCache, dnsFetchedAt>>
    /\ UNCHANGED <<ipVarsOfCache, cacheVarsOfBootstrap, lookupFrame>>

\* ip-rdap lines 74-86 and 229-236
LookupIPBootJsonSettles(p4, p6) ==
    /\ req.pc = "bootParsing"
    /\ req.flow = "ip"
    /\ LET ok == p4 /\ p6
           r == IPStore(IPCacheNow, TheFile, TheFile, req.now, ok)
       IN  /\ ipv4BootstrapCache' = r.v4
           /\ ipv6BootstrapCache' = r.v6
           /\ bootstrapCacheExpiry' = r.expiry
           /\ lastOkIP' = IF ok
                          THEN [set |-> TRUE, id |-> TheFile, now |-> req.now,
                                cleared |-> FALSE]
                          ELSE lastOkIP
           /\ req' = IF ok THEN IPResolved(req, r.v4, r.v6)
                     ELSE Ends(req, 0, "json failed")
    /\ UNCHANGED <<rdapServersCache, dnsFetchedAt>>
    /\ UNCHANGED <<cacheVarsOfBootstrap, lookupFrame>>

\* ip-rdap lines 137-144: the query settles; a response, ok or not, is parsed
LookupIPQuerySettles(response) ==
    /\ req.pc = "querying"
    /\ req.flow = "ip"
    /\ req' = IF response = 0 THEN Ends(req, 0, "fetch failed")
              ELSE [req EXCEPT !.pc = "queryParsing", !.response = response]
    /\ UNCHANGED <<rdapServersCache, dnsFetchedAt>>
    /\ UNCHANGED <<ipVarsOfCache, cacheVarsOfBootstrap, lookupFrame>>

\* ip-rdap lines 144-155 and 238-288
LookupIPQueryJsonSettles(body) ==
    /\ req.pc = "queryParsing"
    /\ req.flow = "ip"
    /\ req' = QueryOutcome(req, body)
    /\ UNCHANGED <<rdapServersCache, dnsFetchedAt>>
    /\ UNCHANGED <<ipVarsOfCache, cacheVarsOfBootstrap, lookupFrame>>

(* GET /api/geo/[address] *)

\* String.prototype.includes on the messages the handler can see: the messages
\* that hold each of the texts it looks for
MessagesWith ==
    [t \in {"Invalid IP", "Private IP", "Reserved IP", "No RDAP server found"} |->
        CASE t = "Invalid IP" -> {"Invalid IP address format", "Invalid IP address"}
          [] t = "Private IP" -> {"Private IP addresses are not supported"}
          [] t = "Reserved IP" -> {"Reserved IP addresses are not supported"}
          [] t = "No RDAP server found" -> {"No RDAP server found for IP",
                                            "No RDAP server found"}]

MessageIncludes(message, text) == message \in MessagesWith[text]

\* route.ts lines 123-132
IPStatusCode(errorMessage) ==
    IF \/ MessageIncludes(errorMessage, "Invalid IP")
       \/ MessageIncludes(errorMessage, "Private IP")
       \/ MessageIncludes(errorMessage, "Reserved IP")
    THEN 400
    ELSE IF MessageIncludes(errorMessage, "No RDAP server found") THEN 404
    ELSE 500

\* route.ts lines 104-111: no address in the path
IPRouteNoAddress ==
    /\ req.pc \in {"idle", "done"}
    /\ req' = Ends([IdleReq EXCEPT !.flow = "ip", !.class = "empty", !.now = clock],
                   400, "IP address is required.")
    /\ UNCHANGED <<rdapServersCache, dnsFetchedAt>>
    /\ UNCHANGED <<ipVarsOfCache, cacheVarsOfBootstrap, lookupFrame>>

\* route.ts lines 114-135: what the handler does once lookupIP has settled
IPRouteAnswers ==
    /\ req.pc = "done"
    /\ req.flow = "ip"
    /\ req.status = 0
    /\ req' = [req EXCEPT !.status = IF req.outcome = "result" THEN 200
                                     ELSE IPStatusCode(req.error)]
    /\ UNCHANGED <<rdapServersCache, dnsFetchedAt>>
    /\ UNCHANGED <<ipVarsOfCache, cacheVarsOfBootstrap, lookupFrame>>

(* lookupIP with geolocation (the ip-rdap of part_002) *)

\* part_002 line 121
GEO_CACHE_TTL == 7 * CACHE_TTL

GEOLOCATION_DB_URLS ==
    [ipv4 |-> "https://raw.githubusercontent.com/sapics/ip-location-db/main/geolite2-city/geolite2-city-ipv4.csv",
     ipv6 |-> "https://raw.githubusercontent.com/sapics/ip-location-db/main/geolite2-city/geolite2-city-ipv6.csv"]

geoFrame == <<clock, calls, eval, page>>

\* part_002 line 123: an empty array is a table too
GeoIsFresh(g, now) == g.v4 # "null" /\ g.v6 # "null" /\ now < g.expiry

\* part_002 lines 156-184: the records of a text; a text that is no CSV of
\* eight fields or more gives no record
parseGeoCSV(text) == IF text = "csv" THEN "records" ELSE "empty"

\* part_002 lines 312-371: the location of the address, when the table of
\* its version has a record whose range holds it
findGeolocation(g, version, held) ==
    LET cache == IF version = "IPv4" THEN g.v4 ELSE g.v6
    IN  IF cache \in {"null", "empty"} THEN "none"
        ELSE IF held THEN "location" ELSE "none"

\* the failure of the fetch thrown on to the lookup that awaits it
GeoRethrown(r, message) ==
    IF r.pc \in {"bootFetching", "bootParsing", "awaitGeo"} THEN Ends(r, 0, message) ELSE r

\* part_002 lines 146-150: the failure is logged and not thrown
GeoCaught(r, message) == r

\* part_002 lines 416-428: Promise.all is fulfilled once fetchBootstrapData
\* and fetchGeolocationData both are; then the resolver and the query
GeoJoined(r, geoPc, v4, v6) ==
    IF geoPc = "idle" THEN IPResolved(r, v4, v6) ELSE [r EXCEPT !.pc = "awaitGeo"]

\* part_002 lines 395-419, 82-94 and 119-131: the checks, then
\* fetchBootstrapData and fetchGeolocationData, each up to its await
GeoLookupBegin(input) ==
    /\ req.pc \in {"idle", "done"}
    /\ geo.pc = "idle"
    /\ LET r == [IdleReq EXCEPT !.flow = "ipgeo", !.ip = input.ip, !.class = input.class,
                                !.now = clock]
           rejection == IPRejection(input.ip)
           g == [geo EXCEPT !.failed = FALSE, !.location = "none"]
           started == IF GeoIsFresh(geo, clock) THEN g
                      ELSE [g EXCEPT !.pc = "fetching", !.now = clock]
           geoFetches == IF started.pc = "fetching"
                         THEN {Fetch(GEOLOCATION_DB_URLS["ipv4"], ""),
                               Fetch(GEOLOCATION_DB_URLS["ipv6"], "")}
                         ELSE {}
       IN  IF rejection # ""
           THEN /\ req' = Ends(r, 0, rejection)
                /\ geo' = g
           ELSE /\ geo' = started
                /\ req' = IF IPIsFresh(ipv4BootstrapCache, ipv6BootstrapCache,
                                       bootstrapCacheExpiry, clock)
                          THEN GeoJoined([r EXCEPT !.fetched = geoFetches], started.pc,
                                         ipv4BootstrapCache, ipv6BootstrapCache)
                          ELSE [r EXCEPT !.pc = "bootFetching",
                                         !.fetched =
                                             geoFetches \cup
                                             {Fetch(IANA_BOOTSTRAP_URLS["ipv4"], ""),
                                              Fetch(IANA_BOOTSTRAP_URLS["ipv6"], "")}]
    /\ UNCHANGED <<rdapServersCache, dnsFetchedAt>>
    /\ UNCHANGED <<ipVarsOfCache, cacheVarsOfBootstrap, geoFrame>>

\* part_002 lines 91-98 and 475-480: Promise.all is rejected as soon as
\* fetchBootstrapData is, the geolocation fetch going on by itself
GeoLookupBootFetchSettles(o4, o6) ==
    /\ req.pc = "bootFetching"
    /\ req.flow = "ipgeo"
    /\ req' = IF o4 = "ok" /\ o6 = "ok" THEN [req EXCEPT !.pc = "bootParsing"]
              ELSE IF "neterr" \in {o4, o6} THEN Ends(req, 0, "fetch failed")
              ELSE Ends(req, 0, "Failed to fetch IANA bootstrap data")
    /\ UNCHANGED <<rdapServersCache, dnsFetchedAt, geo>>
    /\ UNCHANGED <<ipVarsOfCache, cacheVarsOfBootstrap, geoFrame>>

\* part_002 lines 100-113 and 416-428
GeoLookupBootJsonSettles(p4, p6) ==
    /\ req.pc = "bootParsing"
    /\ req.flow = "ipgeo"
    /\ LET ok == p4 /\ p6
           r == IPStore(IPCacheNow, TheFile, TheFile, req.now, ok)
       IN  /\ ipv4BootstrapCache' = r.v4
           /\ ipv6BootstrapCache' = r.v6
           /\ bootstrapCacheExpiry' = r.expiry
           /\ lastOkIP' = IF ok
                          THEN [set |-> TRUE, id |-> TheFile, now |-> req.now,
                                cleared |-> FALSE]
                          ELSE lastOkIP
           /\ req' = IF ok THEN GeoJoined(req, geo.pc, r.v4, r.v6)
                     ELSE Ends(req, 0, "json failed")
    /\ UNCHANGED <<rdapServersCache, dnsFetchedAt, geo>>
    /\ UNCHANGED <<cacheVarsOfBootstrap, geoFrame>>

\* what the lookup does once fetchGeolocationData has returned
AfterGeo(r) ==
    IF r.pc = "awaitGeo" THEN IPResolved(r, ipv4BootstrapCache, ipv6BootstrapCache) ELSE r

\* part_002 lines 128-135 and 146-150: a fetch that fails is caught, a
\* response that is not ok makes the function return; the tables stay
GeoFetchSettles(o4, o6) ==
    /\ geo.pc = "fetching"
    /\ IF o4 = "ok" /\ o6 = "ok"
       THEN /\ geo' = [geo EXCEPT !.pc = "reading"]
            /\ req' = req
       ELSE /\ geo' = [geo EXCEPT !.pc = "idle", !.failed = TRUE]
            /\ req' = IF "neterr" \in {o4, o6}
                      THEN AfterGeo(GeoCaught(req, "geo fetch failed"))
                      ELSE AfterGeo(req)
    /\ UNCHANGED <<rdapServersCache, dnsFetchedAt>>
    /\ UNCHANGED <<ipVarsOfCache, cacheVarsOfBootstrap, geoFrame>>

\* part_002 lines 137-150: the texts are read and parsed, and the tables
\* and their expiry assigned; a text that cannot be read is caught
GeoTextSettles(t4, t6) ==
    /\ geo.pc = "reading"
    /\ IF "rejected" \in {t4, t6}
       THEN /\ geo' = [geo EXCEPT !.pc = "idle", !.failed = TRUE]
            /\ req' = AfterGeo(GeoCaught(req, "geo read failed"))
       ELSE /\ geo' = [geo EXCEPT !.pc = "idle", !.v4 = parseGeoCSV(t4),
                                  !.v6 = parseGeoCSV(t6),
                                  !.expiry = geo.now + GEO_CACHE_TTL,
                                  !.failed = "garbage" \in {t4, t6}]
            /\ req' = AfterGeo(req)
    /\ UNCHANGED <<rdapServersCache, dnsFetchedAt>>
    /\ UNCHANGED <<ipVarsOfCache, cacheVarsOfBootstrap, geoFrame>>

\* part_002 lines 254-262
GeoLookupQuerySettles(response) ==
    /\ req.pc = "querying"
    /\ req.flow = "ipgeo"
    /\ req' = IF response = 0 THEN Ends(req, 0, "fetch failed")
              ELSE [req EXCEPT !.pc = "queryParsing", !.response = response]
    /\ UNCHANGED <<rdapServersCache, dnsFetchedAt, geo>>
    /\ UNCHANGED <<ipVarsOfCache, cacheVarsOfBootstrap, geoFrame>>

\* part_002 lines 262-280 and 430-480: the body is read; the result has the
\* location that findGeolocation gives, when it gives one
GeoLookupQueryJsonSettles(body, held) ==
    /\ req.pc = "queryParsing"
    /\ req.flow = "ipgeo"
    /\ req' = QueryOutcome(req, body)
    /\ geo' = IF QueryOutcome(req, body).outcome = "result"
              THEN [geo EXCEPT !.location =
                        findGeolocation(geo, validateIP(req.ip).version, held)]
              ELSE geo
    /\ UNCHANGED <<rdapServersCache, dnsFetchedAt>>
    /\ UNCHANGED <<ipVarsOfCache, cacheVarsOfBootstrap, geoFrame>>

(* lookupASN *)

\* part_000 lines 297-314 and 403-410: the resolver on the table that
\* fetchBootstrapData returned, then the query is sent
ASNResolved(r) ==
    Resolved(r, findRdapServerForASN(AsnRegistry, validateASN(r.asn.arg).normalized),
             "autnum", 0, "No RDAP server found for AS")

\* part_000 lines 391-403 and 295, part_002 lines 521-530: the validation, then
\* fetchBootstrapData('asn') up to its await
LookupASNBegin(input) ==
    /\ req.pc \in {"idle", "done"}
    /\ LET r == [IdleReq EXCEPT !.flow = "asn", !.asn = input, !.now = clock]
           rejection == ASNRejection(input.arg)
       IN  req' = IF rejection # "" THEN Ends(r, 0, rejection)
                  ELSE IF IsFresh(bootstrapCache["asn"], clock) THEN ASNResolved(r)
                  ELSE [r EXCEPT !.pc = "bootFetching",
                                 !.fetched = {Fetch(IANA_BOOTSTRAP_URLS["asn"], "")}]
    /\ UNCHANGED <<rdapServersCache, dnsFetchedAt>>
    /\ UNCHANGED <<ipVarsOfCache, cacheVarsOfBootstrap, lookupFrame>>

\* part_002 lines 530-534 and 544-548, part_000 lines 442-448
LookupASNBootFetchSettles(outcome) ==
    /\ req.pc = "bootFetching"
    /\ req.flow = "asn"
    /\ IF outcome = "ok"
       THEN /\ req' = [req EXCEPT !.pc = "bootParsing"]
            /\ UNCHANGED bootstrapCache
       ELSE LET r == BootComplete(bootstrapCache, "asn", req.now, FALSE, 0)
            IN  /\ bootstrapCache' = r.cache
                /\ req' = Ends(req, 0, IF outcome = "neterr" THEN "fetch failed"
                                       ELSE "Failed to fetch asn bootstrap data")
    /\ UNCHANGED <<rdapServersCache, dnsFetchedAt, lastOk>>
    /\ UNCHANGED <<ipVarsOfCache, lookupFrame>>

\* part_002 lines 536-543, part_000 lines 297-314 and 403-410
LookupASNBootJsonSettles(parsed) ==
    /\ req.pc = "bootParsing"
    /\ req.flow = "asn"
    /\ LET r == BootComplete(bootstrapCache, "asn", req.now, parsed, TheFile)
       IN  /\ bootstrapCache' = r.cache
           /\ lastOk' = IF parsed
                        THEN [lastOk EXCEPT !["asn"] = [set |-> TRUE, id |-> TheFile,
                                                        now |-> req.now,
                                                        cleared |-> FALSE]]
                        ELSE lastOk
           /\ req' = IF parsed THEN ASNResolved(req) ELSE Ends(req, 0, "json failed")
    /\ UNCHANGED <<rdapServersCache, dnsFetchedAt>>
    /\ UNCHANGED <<ipVarsOfCache, lookupFrame>>

\* part_000 lines 329-336
LookupASNQuerySettles(response) ==
    /\ req.pc = "querying"
    /\ req.flow = "asn"
    /\ req' = IF response = 0 THEN Ends(req, 0, "fetch failed")
              ELSE [req EXCEPT !.pc = "queryParsing", !.response = response]
    /\ UNCHANGED <<rdapServersCache, dnsFetchedAt>>
    /\ UNCHANGED <<ipVarsOfCache, cacheVarsOfBootstrap, lookupFrame>>

\* part_000 lines 336-348 and 412-448
LookupASNQueryJsonSettles(body) ==
    /\ req.pc = "queryParsing"
    /\ req.flow = "asn"
    /\ req' = QueryOutcome(req, body)
    /\ UNCHANGED <<rdapServersCache, dnsFetchedAt>>
    /\ UNCHANGED <<ipVarsOfCache, cacheVarsOfBootstrap, lookupFrame>>

(* GET /api/asn/[number] *)

\* part_007 lines 10-17: no number in the path
ASNRouteNoNumber ==
    /\ req.pc \in {"idle", "done"}
    /\ req' = Ends([IdleReq EXCEPT !.flow = "asn", !.class = "empty", !.now = clock],
                   400, "ASN number required")
    /\ UNCHANGED <<rdapServersCache, dnsFetchedAt>>
    /\ UNCHANGED <<ipVarsOfCache, cacheVarsOfBootstrap, lookupFrame>>

\* part_007 lines 19-25: what the handler does once lookupASN has settled
ASNRouteAnswers ==
    /\ req.pc = "done"
    /\ req.flow = "asn"
    /\ req.status = 0
    /\ req' = [req EXCEPT !.status = IF req.outcome = "result" THEN 200 ELSE 500]
    /\ UNCHANGED <<rdapServersCache, dnsFetchedAt>>
    /\ UNCHANGED <<ipVarsOfCache, cacheVarsOfBootstrap, lookupFrame>>

(* GET /api/lookup/[domain] *)

IANA_RDAP_DNS_JSON_URL == "https://data.iana.org/rdap/dns.json"

\* rdap.ts line 56: `if (rdapServersCache) return;`
RdapServersCacheHitNever(cache) == FALSE
RdapServersCacheHit(cache) == cache # NoTable

\* part_007 lines 58-68: the resolver, then the query is sent
DomainResolved(r, cache) ==
    Resolved(r, findRdapServerUrl(TableOf(cache, DnsRegistry), TldOf(r.domain)),
             "domain", 404, "No RDAP server found for the TLD")

\* part_007 lines 37-56, rdap.ts lines 55-58: the checks of the route, then
\* fetchAndCacheServers up to its await
DomainLookupBegin(domain) ==
    /\ req.pc \in {"idle", "done"}
    /\ LET r == [IdleReq EXCEPT !.flow = "domain", !.domain = domain, !.now = clock]
           rejection == DomainRejection(domain)
       IN  req' = IF rejection # "" THEN Ends(r, 400, rejection)
                  ELSE IF RdapServersCacheHit(rdapServersCache)
                  THEN DomainResolved(r, rdapServersCache)
                  ELSE [r EXCEPT !.pc = "bootFetching",
                                 !.fetched = {Fetch(IANA_RDAP_DNS_JSON_URL, "")}]
    /\ UNCHANGED <<rdapServersCache, dnsFetchedAt>>
    /\ UNCHANGED <<ipVarsOfCache, cacheVarsOfBootstrap, lookupFrame>>

\* rdap.ts lines 58-60, part_007 lines 90-94
DomainBootFetchSettles(outcome) ==
    /\ req.pc = "bootFetching"
    /\ req.flow = "domain"
    /\ req' = IF outcome = "ok" THEN [req EXCEPT !.pc = "bootParsing"]
              ELSE IF outcome = "neterr" THEN Ends(req, 500, "fetch failed")
              ELSE Ends(req, 500, "Failed to fetch IANA data")
    /\ UNCHANGED <<rdapServersCache, dnsFetchedAt>>
    /\ UNCHANGED <<ipVarsOfCache, cacheVarsOfBootstrap, lookupFrame>>

\* rdap.ts lines 61-62, part_007 lines 58-69: the body parses with services
\* ("ok"), parses without ("noservices"), or does not parse ("badjson")
DomainBootJsonSettles(body) ==
    /\ req.pc = "bootParsing"
    /\ req.flow = "domain"
    /\ IF body = "badjson"
       THEN /\ req' = Ends(req, 500, "json failed")
            /\ UNCHANGED <<rdapServersCache, dnsFetchedAt>>
       ELSE LET services == IF body = "ok" THEN TheFile ELSE NoTable
            IN  /\ rdapServersCache' = services
                /\ dnsFetchedAt' = clock
                /\ req' = DomainResolved(req, services)
    /\ UNCHANGED <<ipVarsOfCache, cacheVarsOfBootstrap, lookupFrame>>

\* part_007 line 68
DomainQuerySettles(response) ==
    /\ req.pc = "querying"
    /\ req.flow = "domain"
    /\ req' = IF response = 0 THEN Ends(req, 500, "fetch failed")
              ELSE [req EXCEPT !.pc = "queryParsing", !.response = response]
    /\ UNCHANGED <<rdapServersCache, dnsFetchedAt>>
    /\ UNCHANGED <<ipVarsOfCache, cacheVarsOfBootstrap, lookupFrame>>

\* `HTTP Error ${response.status}: ${response.statusText}`
HttpErrorFallback(status) ==
    CASE status = 404 -> "HTTP Error 404: Not Found"
      [] status = 429 -> "HTTP Error 429: Too Many Requests"

\* JSON.stringify of an object body none of whose description and title
\* `||` takes for true
Stringify(body) ==
    CASE body.description.kind = "undefined" /\ body.title.kind = "undefined" -> "{}"
      [] body.description.kind = "undefined" /\ body.title.kind # "undefined" ->
            "{\"title\":\"\"}"
      [] body.description.kind # "undefined" /\ body.title.kind = "undefined" ->
            "{\"description\":\"\"}"
      [] OTHER -> "{\"description\":\"\",\"title\":\"\"}"

\* part_007 lines 70-81: the error of the answer for a response that is not
\* ok (an array is given as its text)
DomainErrorBody(status, body) ==
    IF body.shape # "object" THEN HttpErrorFallback(status)
    ELSE Or(Or(body.description, body.title), Str(Stringify(body))).text

\* part_007 lines 70-94
DomainQueryJsonSettles(body) ==
    /\ req.pc = "queryParsing"
    /\ req.flow = "domain"
    /\ req' = LET r == [req EXCEPT !.body = body]
              IN  IF req.response = 200
                  THEN CASE body.shape = "object" -> Returns(r, 200)
                         [] body.shape = "null" -> Ends(r, 500, NullRead)
                         [] body.shape = "notjson" -> Ends(r, 500, "json failed")
                  ELSE Ends(r, req.response, DomainErrorBody(req.response, body))
    /\ UNCHANGED <<rdapServersCache, dnsFetchedAt>>
    /\ UNCHANGED <<ipVarsOfCache, cacheVarsOfBootstrap, lookupFrame>>

Responses == {0, 200} \cup ErrorStatuses

\* lookupIP, one lookup after another, as the clock moves
NextLookupIP ==
    \/ \E input \in IpInputs : LookupIPBegin(input)
    \/ \E o4 \in Outcomes, o6 \in Outcomes : LookupIPBootFetchSettles(o4, o6)
    \/ \E p4 \in BOOLEAN, p6 \in BOOLEAN : LookupIPBootJsonSettles(p4, p6)
    \/ \E response \in Responses : LookupIPQuerySettles(response)
    \/ \E body \in Bodies : LookupIPQueryJsonSettles(body)
    \/ IPRouteNoAddress
    \/ IPRouteAnswers
    \/ \E d \in ClockSteps : Tick(d)

SpecLookupIP == Init /\ [][NextLookupIP]_vars

\* lookupASN, one lookup after another, as the clock moves
NextLookupASN ==
    \/ \E input \in AsnArgs : LookupASNBegin(input)
    \/ \E o \in Outcomes : LookupASNBootFetchSettles(o)
    \/ \E parsed \in BOOLEAN : LookupASNBootJsonSettles(parsed)
    \/ \E response \in Responses : LookupASNQuerySettles(response)
    \/ \E body \in Bodies : LookupASNQueryJsonSettles(body)
    \/ ASNRouteNoNumber
    \/ ASNRouteAnswers
    \/ \E d \in ClockSteps : Tick(d)

SpecLookupASN == Init /\ [][NextLookupASN]_vars

\* the domain route, one request after another, as the clock moves
NextLookupDomain ==
    \/ \E domain \in DomainInputs : DomainLookupBegin(domain)
    \/ \E o \in Outcomes : DomainBootFetchSettles(o)
    \/ \E body \in {"ok", "noservices", "badjson"} : DomainBootJsonSettles(body)
    \/ \E response \in Responses : DomainQuerySettles(response)
    \/ \E body \in Bodies : DomainQueryJsonSettles(body)
    \/ \E d \in ClockSteps : Tick(d)

SpecLookupDomain == Init /\ [][NextLookupDomain]_vars

\* lookupIP with geolocation, one lookup after another, as the clock moves
GeoIpInputs ==
    {i \in IpInputs : i.ip \in {IPv4Text(8, 8, 8, 8), IPv4Text(11, 0, 0, 1),
                                IPv6Text(<<8193, 3512, 0, 0, 0, 0, 0, 1>>),
                                IPv4Text(10, 0, 0, 1), JunkText}}
GeoBodies ==
    {ObjectBody(Undefined, Undefined), ObjectBody(Str("Object not found"), Undefined),
     NullBody}
GeoTexts == {"csv", "garbage", "rejected"}

NextLookupIPGeo ==
    \/ \E input \in GeoIpInputs : GeoLookupBegin(input)
    \/ \E o4 \in Outcomes, o6 \in Outcomes : GeoLookupBootFetchSettles(o4, o6)
    \/ \E p4 \in BOOLEAN, p6 \in BOOLEAN : GeoLookupBootJsonSettles(p4, p6)
    \/ \E o4 \in Outcomes, o6 \in Outcomes : GeoFetchSettles(o4, o6)
    \/ \E t4 \in GeoTexts, t6 \in GeoTexts : GeoTextSettles(t4, t6)
    \/ \E response \in Responses : GeoLookupQuerySettles(response)
    \/ \E body \in GeoBodies, held \in BOOLEAN : GeoLookupQueryJsonSettles(body, held)
    \/ \E d \in ClockSteps : Tick(d)

SpecLookupIPGeo == Init /\ [][NextLookupIPGeo]_vars

-----------------------------------------------------------------------------
(* The lookup page (the Home component of part_005)                         *)
(* A handler runs to its first await in one step, and the state updates it  *)
(* makes are applied together. A result is the serial number of the lookup  *)
(* that brought it; 0 is null.                                              *)

LookupTypes == {"domain", "ip", "asn"}

\* what is typed in the input
PageInputs == {"", "www.Example.com ", "example.com", "8.8.8.8", " AS15169", "15169"}

\* line 141: input.trim().toLowerCase()
TrimLower(input) ==
    CASE input = "www.Example.com " -> "www.example.com"
      [] input = " AS15169" -> "as15169"
      [] OTHER -> input

\* line 144: parse(rawInput).domain of tldts, "" for null
ParsedDomain(rawInput) ==
    IF rawInput \in {"www.example.com", "example.com"} THEN "example.com" ELSE ""

\* lines 173-194
isValidIP(ip) == ip = "8.8.8.8"

\* line 162: rawInput.replace(/^as/i, '').trim()
AsnNum(rawInput) == IF rawInput = "as15169" THEN "15169" ELSE rawInput

\* line 163: /^\d+$/.test(asnNum)
AllDigits(asnNum) == asnNum = "15169"

\* lines 121-125
typeMap ==
    [t \in LookupTypes |->
        CASE t = "domain" -> "IP addresses and ASNs"
          [] t = "ip" -> "domains and ASNs"
          [] t = "asn" -> "domains and IP addresses"]

\* lines 127-130: `Ready to look up ${typeMap[lookupType]}.`
ReadyMessage(lookupType) == <<"Ready to look up ", typeMap[lookupType], ".">>

\* clearResults keeping the results it finds
clearResultsStatusOnly(p) ==
    [p EXCEPT !.status = [message |-> ReadyMessage(p.lookupType), type |-> "success"]]

\* lines 116-131; lookupType is the one of the render the handler belongs to
clearResults(p) ==
    [p EXCEPT !.domainResults = 0, !.ipResults = 0, !.asnResults = 0,
              !.status = [message |-> ReadyMessage(p.lookupType), type |-> "success"]]

pageFrame == <<cacheVars, eval, req, rdapServersCache, dnsFetchedAt, geo>>

\* lines 86-100: the effect that runs once the component is mounted
PageMounted ==
    /\ page.pc = "created"
    /\ page' = [page EXCEPT !.pc = "idle",
                   !.status = [message |-> <<"Ready to look up domains, IP addresses, and ASNs.">>,
                               type |-> "success"]]
    /\ UNCHANGED pageFrame

\* line 412: onChange of the input
PageInputChanges(text) ==
    /\ page.pc # "created"
    /\ page.input # text
    /\ page' = [page EXCEPT !.input = text]
    /\ UNCHANGED pageFrame

\* lines 133-137; the three buttons are enabled while a lookup is in flight
handleLookupTypeChange(type) ==
    /\ page.pc # "created"
    /\ page' = [clearResults(page) EXCEPT !.lookupType = type, !.input = ""]
    /\ UNCHANGED pageFrame

\* lines 196-203, 218-225, 240-247: a lookup up to its fetch
LookupStarts(p, kind, url, target) ==
    [clearResults(p) EXCEPT !.isLoading = TRUE,
                            !.status = [message |-> <<"Looking up ", target, "...">>,
                                        type |-> "info"],
                            !.pc = "fetching", !.kind = kind, !.url = url,
                            !.lookups = @ + 1]

Warns(p, message) == [p EXCEPT !.status = [message |-> <<message>>, type |-> "warn"]]

\* lines 139-172; the submit button is disabled while isLoading
handleSubmit ==
    /\ page.pc # "created"
    /\ ~page.isLoading
    /\ page.lookups < MaxLookups
    /\ LET rawInput == TrimLower(page.input)
       IN  page' =
             CASE page.lookupType = "domain" ->
                    IF ParsedDomain(rawInput) = ""
                    THEN Warns(page, "Please enter a valid domain name.")
                    ELSE LookupStarts(page, "domain", "/api/lookup/" \o ParsedDomain(rawInput),
                                      ParsedDomain(rawInput))
               [] page.lookupType = "ip" ->
                    IF ~isValidIP(rawInput)
                    THEN Warns(page, "Please enter a valid IP address.")
                    ELSE LookupStarts(page, "ip", "/api/ip/" \o rawInput, rawInput)
               [] page.lookupType = "asn" ->
                    IF ~AllDigits(AsnNum(rawInput))
                    THEN Warns(page, "Please enter a valid ASN (e.g., AS15169 or 15169).")
                    ELSE LookupStarts(page, "asn", "/api/asn/" \o AsnNum(rawInput),
                                      "AS" \o AsnNum(rawInput))
    /\ UNCHANGED pageFrame

\* the catch block and the finally block of a lookup; a lookup whose finally
\* block left isLoading as it was
LookupFailsLoading(p, message) ==
    [p EXCEPT !.status = [message |-> <<IF message = "" THEN "Unknown error." ELSE message>>,
                          type |-> "error"],
              !.pc = "idle"]

\* lines 208-216, 230-238, 252-260: the catch block, then the finally block
LookupFails(p, message) ==
    [p EXCEPT !.status = [message |-> <<IF message = "" THEN "Unknown error." ELSE message>>,
                          type |-> "error"],
              !.isLoading = FALSE, !.pc = "idle"]

\* lines 205, 227, 249: the fetch settles with a response, ok or not, or rejects
PageFetchSettles(outcome) ==
    /\ page.pc = "fetching"
    /\ page' = IF outcome = "neterr" THEN LookupFails(page, "Failed to fetch")
               ELSE [page EXCEPT !.pc = "parsing", !.ok = (outcome = "ok")]
    /\ UNCHANGED pageFrame

\* the bodies of the answers of the routes: a result, an object with or
\* without an error, the JSON null, or a text that is not JSON
PageBodies ==
    {[shape |-> "object", error |-> e] :
        e \in {Undefined, Str(""), Str("No RDAP server found for the '.com' TLD.")}}
    \cup {[shape |-> "null", error |-> Undefined], [shape |-> "notjson", error |-> Undefined]}

\* lines 206-208, 228-230, 250-252: response.json() settles; the results of
\* the kind of the lookup are set, or the error is thrown and caught
PageJsonSettles(data) ==
    /\ page.pc = "parsing"
    /\ page' =
         IF data.shape = "notjson" THEN LookupFails(page, "Unexpected token < in JSON")
         ELSE IF ~page.ok
         THEN IF data.shape = "null"
              THEN LookupFails(page, NullRead)
              ELSE LookupFails(page, Or(data.error, Str("API error.")).text)
         ELSE LET result == IF data.shape = "null" THEN 0 ELSE page.lookups
                  set == CASE page.kind = "domain" -> [page EXCEPT !.domainResults = result]
                           [] page.kind = "ip" -> [page EXCEPT !.ipResults = result]
                           [] page.kind = "asn" -> [page EXCEPT !.asnResults = result]
              IN  [set EXCEPT !.isLoading = FALSE, !.pc = "idle"]
    /\ UNCHANGED pageFrame

NextLookupPage ==
    \/ PageMounted
    \/ \E text \in PageInputs : PageInputChanges(text)
    \/ \E type \in LookupTypes : handleLookupTypeChange(type)
    \/ handleSubmit
    \/ \E o \in Outcomes : PageFetchSettles(o)
    \/ \E data \in PageBodies : PageJsonSettles(data)

SpecLookupPage == Init /\ [][NextLookupPage]_vars

\* The fetch of a lookup settles and so does the reading of its body: the
\* browser ends every request, with a response or with an error.
SpecLookupPageFair ==
    /\ SpecLookupPage
    /\ WF_vars(\E o \in Outcomes : PageFetchSettles(o))
    /\ WF_vars(\E data \in PageBodies : PageJsonSettles(data))

-----------------------------------------------------------------------------
(* Properties of the resolvers and of validateASN *)

MinOfSet(S) == CHOOSE i \in S : \A j \in S : i <= j

\* the services, by position, that list the TLD itself
TldHits(services, tld) ==
    {i \in 1..Len(services) :
        \E k \in 1..Len(services[i].ranges) : services[i].ranges[k] = tld}

\* C6: on a loaded table findRdapServerUrl(tld) returns the first URL of the
\* first entry, in table order, whose TLDs contain tld as the very same
\* string (so "CO" and "Co" are not "co"), and null when no entry does; with
\* the single entry (["co"], ["https://example/"]) it returns
\* "https://example/" for "co" and null for "xyz".
C6_FirstEntryExactTld ==
    (eval.fn = "findRdapServerUrl" /\ eval.cache.loaded) =>
        LET services == eval.cache.services
            hits == TldHits(services, eval.tld)
        IN  /\ eval.out = IF hits = {} THEN Null ELSE services[MinOfSet(hits)].urls[1]
            /\ services = <<DnsService(<<"co">>, <<"https://example/">>)>> =>
                  /\ eval.tld = "co" => eval.out = "https://example/"
                  /\ eval.tld \in {"xyz", "CO", "Co"} => eval.out = Null

\* two entries list "co": the first one answers
C6_Witness ==
    /\ eval.fn = "findRdapServerUrl"
    /\ eval.cache.loaded
    /\ eval.tld = "co"
    /\ eval.cache.services = <<DnsService(<<"xyz", "co">>, <<"https://rdap.centralnic.com/xyz/">>),
                               DnsService(<<"co">>, <<"https://example/">>)>>
    /\ eval.out = "https://rdap.centralnic.com/xyz/"

\* the services, by position, one of whose ranges holds the identifier
HoldHits(services, id) == {i \in 1..Len(services) : id \in services[i].holds}

\* C7: findRdapServerForIP returns the first URL of the first entry, in table
\* order, that has a CIDR containing the address, and null when none has; a
\* malformed CIDR string is passed over, so a containing CIDR after it, in the
\* same entry or in a later one, is still found. With the entry
\* ["192.0.2.0/24"], 192.0.2.10 resolves to its URL and 192.0.3.10 to null.
C7_FirstContainingCidr ==
    eval.fn = "findRdapServerForIP" =>
        LET hits == HoldHits(eval.services, eval.ip)
        IN  /\ eval.out = IF hits = {} THEN Null
                          ELSE eval.services[MinOfSet(hits)].urls[1]
            /\ eval.services = <<IpService(<<Cidr4(192, 0, 2, 0, 24)>>,
                                           <<"https://rdap.example/">>,
                                           {IPv4Text(192, 0, 2, 10)})>> =>
                  /\ eval.ip = IPv4Text(192, 0, 2, 10) => eval.out = "https://rdap.example/"
                  /\ eval.ip = IPv4Text(192, 0, 3, 10) => eval.out = Null

\* a malformed entry, then an entry whose first CIDR is malformed and whose
\* second contains the address
C7_Witness ==
    /\ eval.fn = "findRdapServerForIP"
    /\ eval.version = "IPv4"
    /\ Len(eval.services) = 2
    /\ \A k \in 1..Len(eval.services[1].ranges) : ~Address4Parses(eval.services[1].ranges[k])
    /\ ~Address4Parses(eval.services[2].ranges[1])
    /\ eval.ip = IPv4Text(193, 0, 0, 1)
    /\ eval.out = "https://rdap.db.ripe.net/"

\* C8: findRdapServerForASN returns the first URL of the first entry, in
\* table order, with a range token that contains the ASN, "a-b" containing n
\* iff a <= n <= b and a token without "-" containing n iff n equals it; it
\* returns null when no entry contains the ASN.
C8_FirstContainingRange ==
    eval.fn = "findRdapServerForASN" =>
        LET hits == HoldHits(eval.services, eval.asn)
        IN  eval.out = IF hits = {} THEN Null
                       ELSE eval.services[MinOfSet(hits)].urls[1]

\* AS1876 is the upper end of "1-1876" and the lower end of "1876-1877"
C8_Witness ==
    /\ eval.fn = "findRdapServerForASN"
    /\ eval.asn = NumOf(<<1, 8, 7, 6>>)
    /\ Len(eval.services) = 2
    /\ eval.services[1].ranges = <<Dash(<<1>>, <<1, 8, 7, 6>>), Chars(<<2, 0, 4, 3>>)>>
    /\ eval.services[2].ranges = <<Dash(<<1, 8, 7, 6>>, <<1, 8, 7, 7>>)>>
    /\ eval.out = "https://rdap.arin.net/registry/"

ReservedASNs == {N0, N65535, N4294967295}
OutOfRangeASNs == {MkNum(TRUE, <<1>>), NumOf(<<4, 2, 9, 4, 9, 6, 7, 2, 9, 6>>)}

\* C9, as stated: validateASN reports invalid for 0, 65535 and 4294967295, for
\* any value below 0 or above 4294967295, and for non-numeric input; for
\* every other integer n in 1..4294967294 it reports valid with normalized n.
C9_AsStated ==
    eval.fn = "validateASN" =>
        IF ~eval.in.numeric \/ eval.in.value \in ReservedASNs \cup OutOfRangeASNs
        THEN ~eval.out.isValid
        ELSE eval.out.isValid /\ eval.out.normalized = eval.in.value

\* C9, on decimal integers alone (numbers, and strings of an optional sign
\* and digits with white space around them): the claim holds.
C9_OnDecimalIntegers ==
    (eval.fn = "validateASN" /\ eval.in.numeric) =>
        IF eval.in.value \in ReservedASNs \cup OutOfRangeASNs
        THEN ~eval.out.isValid
        ELSE eval.out.isValid /\ eval.out.normalized = eval.in.value

\* "12abc" is reported valid, as AS12
C9_Witness ==
    /\ eval.fn = "validateASN"
    /\ eval.in.arg = StrArg(<<"1", "2", "a", "b", "c">>)
    /\ eval.out.isValid
    /\ eval.out.normalized = NumOf(<<1, 2>>)

-----------------------------------------------------------------------------
(* Properties of the lookup flows *)

\* a lookup begins in this step
LookupBegins ==
    /\ req.pc \in {"idle", "done"}
    /\ req' # req
    /\ req' # [req EXCEPT !.status = req'.status]

C2_PublicGoesOn ==
    /\ req.flow = "ip"
    /\ req.class = "public"
    /\ req.pc = "querying"
    /\ Fetch("https://rdap.arin.net/registry/", "ip") \in req.fetched

\* a domain lookup whose name has a TLD begins in this step
DomainLookupBegins == LookupBegins /\ req'.flow = "domain" /\ HasTld(req'.domain)

DnsFetch == Fetch(IANA_RDAP_DNS_JSON_URL, "")

C10_AsStated ==
    /\ (req.flow = "asn" /\ (\/ ~req.asn.numeric
                             \/ req.asn.value \in ReservedASNs \cup OutOfRangeASNs)) =>
          /\ req.pc = "done"
          /\ req.error # ""
          /\ req.fetched = {}
    /\ (req.flow = "domain" /\ ~HasTld(req.domain)) =>
          /\ req.pc = "done"
          /\ req.status = 400
          /\ req.fetched = {}

\* C10, the ASNs that validateASN rejects: lookupASN throws its error
\* without any request to the network.
C10_RejectedASNNoNetwork ==
    (req.flow = "asn" /\ req.class # "empty" /\ ~validateASN(req.asn.arg).isValid) =>
        /\ req.pc = "done"
        /\ req.error = validateASN(req.asn.arg).error
        /\ req.fetched = {}
        /\ ~req.resolved

\* C10, the domain route: a name without a TLD is answered 400 without any
\* request to the network.
C10_NoTldNoNetwork ==
    (req.flow = "domain" /\ ~HasTld(req.domain)) =>
        /\ req.pc = "done"
        /\ req.status = 400
        /\ req.fetched = {}
        /\ ~req.resolved

\* lookupASN("12abc") has fetched the ASN bootstrap file and queries AS12
C10_Witness ==
    /\ req.flow = "asn"
    /\ req.asn.arg = StrArg(<<"1", "2", "a", "b", "c">>)
    /\ req.pc = "querying"
    /\ req.fetched = {Fetch(IANA_BOOTSTRAP_URLS["asn"], ""),
                      Fetch("https://rdap.arin.net/registry/", "autnum")}

\* the flow's bootstrap table is held
TableHeld ==
    CASE req.flow = "ip" -> ipv4BootstrapCache # NoTable /\ ipv6BootstrapCache # NoTable
      [] req.flow = "asn" -> bootstrapCache["asn"].present
      [] req.flow = "domain" -> rdapServersCache # NoTable
      [] OTHER -> FALSE

\* the requests of the lookup that went to an RDAP server
QueriesSent == {f \in req.fetched : f.path # ""}

\* the URLs of the tables, each with the base URL of its queries
QueryBases ==
    {<<"https://rdap.arin.net/registry/", "https://rdap.arin.net/registry/">>,
     <<"https://rdap.lacnic.net/rdap", "https://rdap.lacnic.net/rdap/">>,
     <<"https://rdap.apnic.net/", "https://rdap.apnic.net/">>,
     <<"https://rdap.apnic.net", "https://rdap.apnic.net/">>,
     <<"https://example/", "https://example/">>,
     <<"https://rdap.verisign.com/com/v1", "https://rdap.verisign.com/com/v1/">>}

PathOfFlow == [flow \in {"ip", "asn", "domain"} |->
                  CASE flow = "ip" -> "ip" [] flow = "asn" -> "autnum"
                    [] flow = "domain" -> "domain"]

NonEmptyValues ==
    {Str("Object not found"), Str("Invalid IP address"), ArrayOf("Object not found"),
     Str("Not Found")}

\* the response of the RDAP server was not ok and its body has been read
ErrorBodyRead == req.pc = "done" /\ req.response \in ErrorStatuses

\* what the claims take the message to be when the body gives none
FallbackOf(status) ==
    CASE status = 404 -> "HTTP 404: Not Found"
      [] status = 429 -> "HTTP 429: Too Many Requests"

\* C12, as stated: for a response that is not ok, in lookupIP and lookupASN,
\* the message is the description of the body when the body is a JSON object
\* with a description that is not empty, else its title when that is not
\* empty, else "HTTP <status>: <statusText>" (also when the body is not
\* JSON); the call ends in an error.
C12_AsStated ==
    (req.flow \in {"ip", "asn"} /\ ErrorBodyRead) =>
        /\ req.outcome = "error"
        /\ req.error =
              IF req.body.shape = "object" /\ req.body.description \in NonEmptyValues
              THEN req.body.description.text
              ELSE IF req.body.shape = "object" /\ req.body.title \in NonEmptyValues
              THEN req.body.title.text
              ELSE FallbackOf(req.response)

\* C12, for bodies whose description and title are strings or absent: the
\* claim holds.
C12_OnStrings ==
    (/\ req.flow \in {"ip", "asn"}
     /\ ErrorBodyRead
     /\ req.body.description.kind # "array") => 
        /\ req.outcome = "error"
        /\ req.error =
              IF req.body.shape = "object" /\ req.body.description \in NonEmptyValues
              THEN req.body.description.text
              ELSE IF req.body.shape = "object" /\ req.body.title \in NonEmptyValues
              THEN req.body.title.text
              ELSE FallbackOf(req.response)

\* the body {"description": [], "title": "Not Found"} gives the empty message
C12_Witness ==
    /\ req.flow = "ip"
    /\ ErrorBodyRead
    /\ req.body = ObjectBody(EmptyArray, Str("Not Found"))
    /\ req.outcome = "error"
    /\ req.error = ""

\* the serialized bodies
RawBodies ==
    {"{}", "{\"title\":\"\"}", "{\"description\":\"\"}", "{\"description\":\"\",\"title\":\"\"}"}

\* C13, as stated: in every kind of lookup, when the RDAP server's response
\* is not ok, the message given to the caller is the description of the
\* body, its title, or the HTTP status fallback, and never the serialized
\* body, also when the body has neither description nor title.
C13_AsStated ==
    ErrorBodyRead =>
        /\ req.error \notin RawBodies
        /\ \/ req.body.shape = "object" /\ req.error = req.body.description.text
           \/ req.body.shape = "object" /\ req.error = req.body.title.text
           \/ req.error \in {"HTTP 404: Not Found", "HTTP 429: Too Many Requests",
                             "HTTP Error 404: Not Found",
                             "HTTP Error 429: Too Many Requests"}

\* the domain route answers a 404 whose body is {} with the error "{}"
C13_Witness ==
    /\ req.flow = "domain"
    /\ ErrorBodyRead
    /\ req.body = ObjectBody(Undefined, Undefined)
    /\ req.status = 404
    /\ req.error = "{}"

(* GET /api/geo/[address]: the status of the answer *)

\* the IP route has answered the lookup of an address
IPAnswered == req.flow = "ip" /\ req.pc = "done" /\ req.status # 0 /\ req.class # "empty"

\* what happened to the lookup, read from what it did and not from its message
IPKind ==
    CASE req.class \in {"invalid", "private", "reserved"} -> "rejected"
      [] req.class = "public" /\ req.outcome = "result" -> "success"
      [] req.class = "public" /\ req.outcome = "error" /\ req.resolved
                              /\ req.queries = 0 -> "no entry"
      [] OTHER -> "failure"

StatusOfKind ==
    [k \in {"rejected", "no entry", "failure", "success"} |->
        CASE k = "rejected" -> 400
          [] k = "no entry" -> 404
          [] k = "failure" -> 500
          [] k = "success" -> 200]

\* C14: the IP route answers 400 for an invalid, private or reserved address,
\* 404 when no bootstrap entry contains the address, 500 for a bootstrap,
\* transport or upstream failure, and 200 on success.
C14_AsStated == IPAnswered => req.status = StatusOfKind[IPKind]

\* an upstream failure whose description is "Invalid IP address": the route
\* answers 400
C14_Witness ==
    /\ IPAnswered
    /\ req.class = "public"
    /\ req.response = 404
    /\ req.body = ObjectBody(Str("Invalid IP address"), Undefined)
    /\ req.error = "Invalid IP address"
    /\ req.status = 400

\* the statuses are as stated whenever the upstream failure's message holds
\* none of the texts the route looks for
C14_UnlessUpstreamTextCollides ==
    (IPAnswered /\ ~(req.queries = 1 /\ req.error \in {"Invalid IP address",
                                                       "No RDAP server found"})) =>
        req.status = StatusOfKind[IPKind]

(* GET /api/asn/[number]: the status of the answer *)

\* the ASN route has answered the lookup of the number in the path, a string
ASNAnswered ==
    /\ req.flow = "asn"
    /\ req.pc = "done"
    /\ req.status # 0
    /\ req.class # "empty"
    /\ req.asn.arg.typeof = "string"

\* what happened to the lookup, read from its argument and from what it did
ASNKind ==
    CASE ~req.asn.numeric -> "rejected"
      [] req.asn.value \in ReservedASNs \cup OutOfRangeASNs -> "rejected"
      [] req.outcome = "result" -> "success"
      [] req.outcome = "error" /\ req.resolved /\ req.queries = 0 -> "no entry"
      [] OTHER -> "failure"

\* C15: the ASN route answers 400 for a malformed or reserved AS number, 404
\* when no bootstrap entry contains it, and 500 only for a bootstrap,
\* transport or upstream failure.
C15_AsStated == ASNAnswered => req.status = StatusOfKind[ASNKind]

\* AS0, a reserved number, is answered 500
C15_Witness ==
    /\ ASNAnswered
    /\ req.asn.numeric
    /\ req.asn.value = N0
    /\ req.error = "Reserved ASN"
    /\ req.fetched = {}
    /\ req.status = 500

\* a number that no bootstrap entry contains is answered 500
C15_NoEntryWitness ==
    /\ ASNAnswered
    /\ req.resolved
    /\ req.queries = 0
    /\ req.error = "No RDAP server found for AS"
    /\ req.status = 500

\* every failure of the lookup, of whatever kind, is answered 500
C15_EveryFailure500 ==
    ASNAnswered => req.status = IF req.outcome = "result" THEN 200 ELSE 500

-----------------------------------------------------------------------------
(* Properties of normalizeRdapResponse *)

Normalized == eval.fn = "normalizeRdapResponse" /\ ~eval.threw

\* the events of the response, by position, whose eventAction is the action
EventHits(action) ==
    {i \in 1..Len(eval.data.events.items) : eval.data.events.items[i].eventAction = action}

\* the formatted date of the first event of the action
FirstDate(action) ==
    toUTCString(eval.data.events.items[MinOfSet(EventHits(action))].eventDate)

\* C16: lastUpdated is the formatted date of the first 'last changed' event;
\* when there is none but a 'last update' event exists, the formatted date
\* of that event; 'N/A' only when neither exists.
C16_AsStated ==
    Normalized =>
        eval.out.lastUpdated =
            IF EventHits("last changed") # {} THEN FirstDate("last changed")
            ELSE IF EventHits("last update") # {} THEN FirstDate("last update")
            ELSE "N/A"

\* the only event of the response is a 'last update' and lastUpdated is 'N/A'
C16_Witness ==
    /\ Normalized
    /\ eval.data.events.items =
           <<[eventAction |-> "last update", eventDate |-> "2020-01-02T03:04:05Z"]>>
    /\ eval.out.lastUpdated = "N/A"

\* lastUpdated is the formatted date of the first 'last changed' event and
\* 'N/A' when there is none, whatever 'last update' events there are
C16_LastChangedOnly ==
    Normalized =>
        eval.out.lastUpdated =
            IF EventHits("last changed") # {} THEN FirstDate("last changed") ELSE "N/A"

\* the ldhName of the entries that have one which is not empty, in order
RECURSIVE NamesOf(_)
NamesOf(entries) ==
    IF entries = <<>> THEN <<>>
    ELSE IF Head(entries).ldhName \in {Str("ns1.example.com"), Str("ns2.example.com")}
    THEN <<Head(entries).ldhName.text>> \o NamesOf(Tail(entries))
    ELSE NamesOf(Tail(entries))

\* C17: the nameservers list is the ldhName of each nameserver entry that
\* has a non-empty ldhName, in input order; an entry without ldhName
\* contributes no element, no placeholder such as 'N/A' appears.
C17_AsStated == Normalized => eval.out.nameservers = NamesOf(eval.data.nameservers.items)

\* an entry without ldhName before one with it: the list begins with 'N/A'
C17_Witness ==
    /\ Normalized
    /\ eval.data.nameservers.items =
           <<[ldhName |-> Undefined], [ldhName |-> Str("ns1.example.com")]>>
    /\ eval.out.nameservers = <<"N/A", "ns1.example.com">>

\* the list has one element for every entry, in order: the ldhName of the
\* entry, or 'N/A' when the entry has none or an empty one
C17_PlaceholderForEach ==
    Normalized =>
        LET entries == eval.data.nameservers.items
        IN  /\ Len(eval.out.nameservers) = Len(entries)
            /\ \A i \in 1..Len(entries) :
                  eval.out.nameservers[i] =
                      IF entries[i].ldhName \in {Undefined, Str("")} THEN "N/A"
                      ELSE entries[i].ldhName.text

\* the list that the copy of the module in part_003 makes is as stated
C17_Part003 ==
    Normalized => nameserversOfPart003(eval.data) = NamesOf(eval.data.nameservers.items)

\* the items of the vCard of an entity, none when vcardArray[1] is no array
ItemsOf(entity) ==
    IF entity.vcardArray.shape = "properties" THEN entity.vcardArray.items ELSE <<>>

\* the properties of the items, by position, that are arrays named so
PropertyHits(items, name) ==
    {j \in 1..Len(items) : items[j].isArray /\ items[j].first = name}

\* the fourth element of the first property named so when it is a string,
\* undefined in every other case
FirstValue(items, name) ==
    IF PropertyHits(items, name) = {} THEN Undefined
    ELSE LET p == items[MinOfSet(PropertyHits(items, name))]
         IN  IF p.fourth.kind = "string" THEN p.fourth ELSE Undefined

\* the output has one element for every entity, at the same index, with the
\* roles of the entity and the name, email and organization of its vCard
EntitiesCarried ==
    LET entities == eval.data.entities.items
    IN  /\ Len(eval.out.entities) = Len(entities)
        /\ \A i \in 1..Len(entities) :
              /\ eval.out.entities[i].roles = entities[i].roles
              /\ eval.out.entities[i].name = FirstValue(ItemsOf(entities[i]), "fn")
              /\ eval.out.entities[i].email = FirstValue(ItemsOf(entities[i]), "email")
              /\ eval.out.entities[i].organization =
                     FirstValue(ItemsOf(entities[i]), "org")

\* C18: every entity of the input yields one element of the output entities
\* at the same index with that entity's handle, roles, name (vCard fn), email
\* and organization (vCard org); an entity with handle h gives handle h.
C18_AsStated ==
    Normalized =>
        /\ EntitiesCarried
        /\ \A i \in 1..Len(eval.data.entities.items) :
              eval.out.entities[i].handle = eval.data.entities.items[i].handle

\* an entity with the handle H1: the element made of it has no handle
C18_Witness ==
    /\ Normalized
    /\ Len(eval.data.entities.items) = 1
    /\ eval.data.entities.items[1].handle = Str("H1")
    /\ eval.data.entities.items[1].roles = ListOf(<<"registrar">>)
    /\ eval.out.entities[1].roles = ListOf(<<"registrar">>)
    /\ eval.out.entities[1].handle = Undefined

\* every part of the claim but the handle: index, roles, name, email and
\* organization are carried, and no element has a handle
C18_AllButHandle ==
    Normalized =>
        /\ EntitiesCarried
        /\ \A i \in 1..Len(eval.out.entities) : eval.out.entities[i].handle = Undefined

\* the entities of the response, by position, whose roles contain 'registrar'
RegistrarHits ==
    {i \in 1..Len(eval.data.entities.items) :
        \E k \in 1..Len(eval.data.entities.items[i].roles.items) :
            eval.data.entities.items[i].roles.items[k] = "registrar"}

\* the items of the vCard of the first entity whose roles contain
\* 'registrar', none when there is no such entity or it has no vCard array
RegistrarItems ==
    IF RegistrarHits = {} THEN <<>>
    ELSE ItemsOf(eval.data.entities.items[MinOfSet(RegistrarHits)])

\* C19: registrar is the fourth element of the first vCard property named
\* 'fn' of the first entity whose roles contain 'registrar', and 'N/A' when
\* there is no such entity, no vCard array, no 'fn' property or a fourth
\* element that is no string; registrarUrl, registrarAbuseEmail and
\* registrarAbusePhone are taken the same way from 'url', 'email' and 'tel'
\* and are undefined when absent.
C19_RegistrarFromFirstFn ==
    Normalized =>
        /\ eval.out.registrar =
               IF FirstValue(RegistrarItems, "fn") = Undefined THEN "N/A"
               ELSE FirstValue(RegistrarItems, "fn").text
        /\ eval.out.registrarUrl = FirstValue(RegistrarItems, "url")
        /\ eval.out.registrarAbuseEmail = FirstValue(RegistrarItems, "email")
        /\ eval.out.registrarAbusePhone = FirstValue(RegistrarItems, "tel")

\* the second entity is the first registrar; its first 'fn' has no string as
\* fourth element and a later 'fn' has one: the registrar is 'N/A'
C19_Witness ==
    /\ Normalized
    /\ Len(eval.data.entities.items) = 2
    /\ eval.data.entities.items[1].roles = ListOf(<<"abuse">>)
    /\ eval.data.entities.items[1].vcardArray.items =
           <<Property("fn", Str("Registrar A"))>>
    /\ eval.data.entities.items[2].roles = ListOf(<<"technical", "registrar">>)
    /\ eval.data.entities.items[2].vcardArray.items =
           <<Property("fn", EmptyArray), Property("fn", Str("Registrar B"))>>
    /\ eval.out.registrar = "N/A"

\* the registrar's vCard has url, email and tel: all three are read
C19_DetailsWitness ==
    /\ Normalized
    /\ eval.out.registrar = "Registrar A"
    /\ eval.out.registrarUrl = Str("https://a.example")
    /\ eval.out.registrarAbuseEmail = Str("a@example.com")
    /\ eval.out.registrarAbusePhone = Str("+1.5550100")

\* the upper-case and the lower-case letter of each letter of the statuses
Letters == {<<"A", "a">>, <<"B", "b">>, <<"C", "c">>}
UpperOf(c) == IF \E l \in Letters : l[2] = c THEN (CHOOSE l \in Letters : l[2] = c)[1] ELSE c
LowerOf(c) == IF \E l \in Letters : l[1] = c THEN (CHOOSE l \in Letters : l[1] = c)[2] ELSE c

\* the characters of a status, by position, that are no whitespace
Inked(status) == {i \in 1..Len(status) : status[i] \notin {" ", "\t", "\n"}}

\* the label of a status: as long as the status, its first character
\* upper-cased and the others as they are
IsLabelOf(label, status) ==
    /\ Len(label) = Len(status)
    /\ \A i \in 1..Len(status) : label[i] = IF i = 1 THEN UpperOf(status[1]) ELSE status[i]

\* the URL of a status: the prefix, then the lower-cased characters of the
\* status that are no whitespace, in their order
IsUrlOf(url, status) ==
    /\ Len(url) = 1 + Cardinality(Inked(status))
    /\ url[1] = "https://icann.org/epp#"
    /\ \A i \in Inked(status) :
          url[1 + Cardinality({j \in Inked(status) : j <= i})] = LowerOf(status[i])

\* C20: the statuses list has one element per status of the input, in input
\* order, whose label is the status with only its first character upper-cased
\* and whose url is 'https://icann.org/epp#' followed by the status
\* lower-cased with all whitespace removed; an absent status list gives an
\* empty list.
C20_LabelAndUrlPerStatus ==
    Normalized =>
        /\ Len(eval.out.statuses) = Len(eval.data.status.items)
        /\ \A i \in 1..Len(eval.data.status.items) :
              /\ IsLabelOf(eval.out.statuses[i].label, eval.data.status.items[i])
              /\ IsUrlOf(eval.out.statuses[i].url, eval.data.status.items[i])
        /\ ~eval.data.status.present => eval.out.statuses = <<>>
        /\ \A i \in 1..Len(eval.data.status.items) :
              eval.data.status.items[i] = ClientTransferProhibited =>
                  /\ eval.out.statuses[i].label =
                         <<"C", "l", "i", "e", "n", "t", " ", "t", "r", "a", "n", "s",
                           "f", "e", "r", " ", "p", "r", "o", "h", "i", "b", "i", "t",
                           "e", "d">>
                  /\ eval.out.statuses[i].url =
                         <<"https://icann.org/epp#", "c", "l", "i", "e", "n", "t", "t",
                           "r", "a", "n", "s", "f", "e", "r", "p", "r", "o", "h", "i",
                           "b", "i", "t", "e", "d">>

\* 'client transfer prohibited' and a second status have been normalized
C20_Witness ==
    /\ Normalized
    /\ eval.data.status.items = <<ClientTransferProhibited, <<"a", "B">>>>
    /\ Len(eval.out.statuses) = 2
    /\ eval.out.statuses[2].label = <<"A", "B">>
    /\ eval.out.statuses[2].url = <<"https://icann.org/epp#", "a", "b">>

\* the response has no status list
C20_AbsentWitness ==
    /\ Normalized
    /\ eval.data = NoData
    /\ eval.out.statuses = <<>>

\* normalizeRdapResponse was given an object, with whatever fields missing
GivenObject == eval.fn = "normalizeRdapResponse" /\ eval.data.json = "object"

\* C21: normalizeRdapResponse does not throw on an input in which any of the
\* optional fields is missing, and each missing field becomes a marker or an
\* empty value (domainName, registrar, registeredOn, expiresOn 'N/A';
\* statuses, nameservers, entities the empty list), never an empty string.
C21_TotalWithMarkers ==
    GivenObject =>
        /\ ~eval.threw
        /\ eval.data.ldhName = Undefined => eval.out.domainName = "N/A"
        /\ (\/ ~eval.data.entities.present
            \/ RegistrarHits = {}
            \/ eval.data.entities.items[MinOfSet(RegistrarHits)].vcardArray.shape = "absent")
              => eval.out.registrar = "N/A"
        /\ ~eval.data.events.present =>
              /\ eval.out.registeredOn = "N/A"
              /\ eval.out.expiresOn = "N/A"
        /\ ~eval.data.status.present => eval.out.statuses = <<>>
        /\ ~eval.data.nameservers.present => eval.out.nameservers = <<>>
        /\ ~eval.data.entities.present => eval.out.entities = <<>>
        /\ "" \notin {eval.out.domainName, eval.out.registrar, eval.out.registeredOn,
                      eval.out.expiresOn, eval.out.lastUpdated, eval.out.lastTransferred}

\* the response with every optional field missing has been normalized
C21_Witness ==
    /\ GivenObject
    /\ eval.data = NoData
    /\ ~eval.threw
    /\ eval.out.domainName = "N/A"
    /\ eval.out.registrar = "N/A"
    /\ eval.out.registeredOn = "N/A"
    /\ eval.out.expiresOn = "N/A"
    /\ eval.out.nameservers = <<>>
    /\ eval.out.entities = <<>>

\* an entity whose roles and vcardArray are both missing has been normalized
C21_BareEntityWitness ==
    /\ GivenObject
    /\ ~eval.threw
    /\ Len(eval.data.entities.items) = 1
    /\ eval.data.entities.items[1].roles = Absent
    /\ eval.data.entities.items[1].vcardArray.shape = "absent"
    /\ eval.out.registrar = "N/A"

\* the JSON null, which is no object, makes normalizeRdapResponse throw
C21_NullThrows ==
    /\ eval.fn = "normalizeRdapResponse"
    /\ eval.data = NullData
    /\ eval.threw

-----------------------------------------------------------------------------
(* Properties of the CIDR notation of lookupIP *)

\* the number of addresses from start to end, both among them
SpanOf(startAddress, endAddress) ==
    WidePlusOne(WideMinus(ipToIntUnsigned(endAddress), ipToIntUnsigned(startAddress)))

\* an IPv4 network with both addresses, start <= end
Cidr4Built ==
    /\ eval.fn = "BuildCidr"
    /\ eval.version = "IPv4"
    /\ eval.startAddress # <<>>
    /\ eval.endAddress # <<>>
    /\ WideLeq(ipToIntUnsigned(eval.startAddress), ipToIntUnsigned(eval.endAddress))

\* C22: for an IPv4 network that spans exactly 2^k addresses the cidr is
\* startAddress/(32-k); for every IPv4 start <= end the prefix length is an
\* integer between 0 and 32, also for a range that starts below and ends at
\* or above 128.0.0.0; for IPv6 the cidr is startAddress/64.
C22_AsStated ==
    /\ Cidr4Built =>
          /\ eval.out.defined
          /\ eval.out.address = eval.startAddress
          /\ eval.out.prefix.kind = "integer"
          /\ eval.out.prefix.n \in 0..32
          /\ \A k \in 0..32 :
                SpanOf(eval.startAddress, eval.endAddress) = WidePow2(k) =>
                    eval.out.prefix.n = 32 - k
    /\ (/\ eval.fn = "BuildCidr"
        /\ eval.version = "IPv6"
        /\ eval.startAddress # <<>>
        /\ eval.endAddress # <<>>) =>
          /\ eval.out.defined
          /\ eval.out.address = eval.startAddress
          /\ eval.out.prefix = [kind |-> "integer", n |-> 64]

\* 0.0.0.0 to 255.255.255.255, which spans 2^32 addresses: the prefix length
\* printed is Infinity
C22_Witness ==
    /\ Cidr4Built
    /\ eval.startAddress = <<0, 0, 0, 0>>
    /\ eval.endAddress = <<255, 255, 255, 255>>
    /\ eval.out.prefix.kind = "Infinity"

\* 64.0.0.0 to 191.255.255.255: the prefix length printed is NaN
C22_NaNWitness ==
    /\ Cidr4Built
    /\ eval.startAddress = <<64, 0, 0, 0>>
    /\ eval.endAddress = <<191, 255, 255, 255>>
    /\ eval.out.prefix.kind = "NaN"

\* the first parts of both addresses are on the same side of 128
SameHalf == (eval.startAddress[1] >= 128) = (eval.endAddress[1] >= 128)

\* the claim holds for the networks that do not cross 128.0.0.0
C22_WithinOneHalf ==
    (Cidr4Built /\ SameHalf) =>
        /\ eval.out.defined
        /\ eval.out.address = eval.startAddress
        /\ eval.out.prefix.kind = "integer"
        /\ eval.out.prefix.n \in 0..32
        /\ \A k \in 0..32 :
              SpanOf(eval.startAddress, eval.endAddress) = WidePow2(k) =>
                  eval.out.prefix.n = 32 - k

\* 128.0.0.0 to 128.0.0.255 is reported as 128.0.0.0/24
C22_UpperHalfWitness ==
    /\ Cidr4Built
    /\ eval.startAddress = <<128, 0, 0, 0>>
    /\ eval.endAddress = <<128, 0, 0, 255>>
    /\ eval.out.prefix = [kind |-> "integer", n |-> 24]

-----------------------------------------------------------------------------
(* Properties of isPrivateIP *)

\* a text that is an IPv4 address: four numbers of at most 255, no prefix
IsIPv4Address(ip) ==
    /\ ip.fam = "v4"
    /\ ip.prefix = -1
    /\ Len(ip.parts) = 4
    /\ \A i \in 1..4 : ip.parts[i] \in 0..255

\* a text that is an IPv6 address: eight groups of at most ffff, no prefix
IsIPv6Address(ip) ==
    /\ ip.fam = "v6"
    /\ ip.prefix = -1
    /\ Len(ip.parts) = 8
    /\ \A i \in 1..8 : ip.parts[i] \in 0..65535

\* the address is inside 10.0.0.0/8, 172.16.0.0/12, 192.168.0.0/16,
\* 127.0.0.0/8 or 169.254.0.0/16, told by the numbers of the address
InPrivateRange4(ip) ==
    \/ ip.parts[1] = 10
    \/ ip.parts[1] = 172 /\ ip.parts[2] \in 16..31
    \/ ip.parts[1] = 192 /\ ip.parts[2] = 168
    \/ ip.parts[1] = 127
    \/ ip.parts[1] = 169 /\ ip.parts[2] = 254

\* C23: isPrivateIP returns true for every IPv4 address inside 10.0.0.0/8,
\* 172.16.0.0/12, 192.168.0.0/16, 127.0.0.0/8 or 169.254.0.0/16, false for
\* every valid IPv4 address outside the five ranges, and false for input
\* that is not a valid IP.
C23_PrivateRanges4 ==
    eval.fn = "isPrivateIP" =>
        /\ IsIPv4Address(eval.ip) => (eval.out <=> InPrivateRange4(eval.ip))
        /\ (eval.ip.prefix = -1 /\ ~IsIPv4Address(eval.ip) /\ ~IsIPv6Address(eval.ip))
              => ~eval.out

\* 172.31.255.255, the last address of 172.16.0.0/12, is private
C23_Witness ==
    /\ eval.fn = "isPrivateIP"
    /\ eval.ip = IPv4Text(172, 31, 255, 255)
    /\ eval.out

\* 172.32.0.0, the first address after 172.16.0.0/12, is not private
C23_NeighbourWitness ==
    /\ eval.fn = "isPrivateIP"
    /\ eval.ip = IPv4Text(172, 32, 0, 0)
    /\ ~eval.out

\* a text that is no address is not private
C23_InvalidWitness ==
    /\ eval.fn = "isPrivateIP"
    /\ eval.ip = JunkText
    /\ ~eval.out

\* "10.0.0.1/4", an address of 10.0.0.0/8 written with a prefix length that
\* is shorter than the range's, is valid for validateIP and is not private
C23_ShortPrefixNotPrivate ==
    /\ eval.fn = "isPrivateIP"
    /\ eval.ip = Cidr4(10, 0, 0, 1, 4)
    /\ validateIP(eval.ip).isValid
    /\ ~eval.out

-----------------------------------------------------------------------------
(* Properties of lookupIP with geolocation *)

\* a lookup with geolocation has ended
GeoLookupDone == req.flow = "ipgeo" /\ req.pc = "done"

\* the bootstrap, the resolver and the RDAP query of the lookup succeeded
CoreSucceeded ==
    /\ req.resolved
    /\ req.server # Null
    /\ req.response = 200
    /\ req.body.shape = "object"

\* C24: a failure of the geolocation source (network error, non-2xx answer,
\* unparsable data) never makes the IP lookup fail: whenever the bootstrap,
\* the resolver and the RDAP query succeed lookupIP returns a record, and
\* the location is omitted when geolocation is not available.
C24_GeoNeverFailsLookup ==
    GeoLookupDone =>
        /\ CoreSucceeded => req.outcome = "result"
        /\ req.outcome = "error" => req.error \notin {"geo fetch failed", "geo read failed"}
        /\ (req.outcome = "result" /\ (IF validateIP(req.ip).version = "IPv4"
                                       THEN geo.v4 ELSE geo.v6) \in {"null", "empty"})
              => geo.location = "none"

\* the geolocation fetch failed, no table is held, and the lookup returned a
\* record without location
C24_Witness ==
    /\ GeoLookupDone
    /\ CoreSucceeded
    /\ geo.failed
    /\ geo.v4 = "null"
    /\ geo.pc = "idle"
    /\ req.outcome = "result"
    /\ geo.location = "none"

\* the geolocation tables are held and the record has a location
C24_LocatedWitness ==
    /\ GeoLookupDone
    /\ req.outcome = "result"
    /\ geo.v4 = "records"
    /\ geo.location = "location"

\* C24, progress: a lookup that waits for the geolocation fetch alone goes on
\* whatever becomes of that fetch
C24_GeoSettlesLookupGoesOn ==
    [][(req.pc = "awaitGeo" /\ geo.pc # "idle" /\ geo'.pc = "idle")
          => (req'.resolved /\ req'.error \notin {"geo fetch failed", "geo read failed"})]_vars

-----------------------------------------------------------------------------
(* Properties of getCacheStats and clearBootstrapCache *)

\* the types fetched successfully since the cache was last cleared
FetchedSinceClear == {t \in Types : lastOk[t].set /\ ~lastOk[t].cleared}

\* what getCacheStats reports is one pair for each type fetched successfully
\* since the last clear, and the size is the number of pairs
StatsAreTheFetched ==
    LET stats == getCacheStats(bootstrapCache)
    IN  /\ stats.entries = {[type |-> t, expiry |-> lastOk[t].now + CACHE_TTL] :
                               t \in FetchedSinceClear}
        /\ \A t \in Types : Cardinality({e \in stats.entries : e.type = t}) <= 1
        /\ stats.size = Cardinality(FetchedSinceClear)
        /\ stats.size <= 5

\* C25: after any sequence of fetchBootstrapData and clearBootstrapCache
\* calls getCacheStats reports exactly one {type, expiry} pair per type
\* fetched successfully since the last clear, with size the number of pairs
\* (at most 5); right after clearBootstrapCache the size is 0, and the next
\* fetchBootstrapData call for any type fetches from the network.
C25_StatsPerFetchedType ==
    /\ []StatsAreTheFetched
    /\ [][(bootstrapCache # bootstrapCache' /\ lastOk' # lastOk
              /\ \A t \in Types : ~bootstrapCache'[t].present)
             => getCacheStats(bootstrapCache').size = 0]_vars
    /\ [][\A c \in Slots, t \in Types :
            (Begins(c, t) /\ getCacheStats(bootstrapCache).size = 0) => Refetches(c, t)]_vars

\* two types are held, one fetched at a later time than the other
C25_Witness ==
    /\ getCacheStats(bootstrapCache).size = 2
    /\ \E e1 \in getCacheStats(bootstrapCache).entries,
          e2 \in getCacheStats(bootstrapCache).entries :
            e1.type # e2.type /\ e1.expiry < e2.expiry

\* the cache was cleared after a successful fetch, and a call made after the
\* clear has sent a request
C25_ClearedWitness ==
    /\ getCacheStats(bootstrapCache).size = 0
    /\ \E t \in Types : lastOk[t].set /\ lastOk[t].cleared
    /\ \E c \in Slots : calls[c].pc = "fetching" /\ lastOk[calls[c].type].cleared

-----------------------------------------------------------------------------
(* Properties of concurrent refreshes of one type *)

\* Call c, a refresh of type t, stores its entry in this step.
Stores(c, t) ==
    /\ calls[c].fn = "rdap-bootstrap"
    /\ calls[c].type = t
    /\ calls[c].pc = "parsing"
    /\ calls'[c].pc = "returned"

\* C26, as stated: under concurrent refreshes of one type the stored expiry
\* never decreases; a refresh that started earlier and completes later does
\* not replace the entry written by a refresh that started later.
C26_AsStated ==
    [][\A c \in Slots, t \in Types :
        (Stores(c, t) /\ bootstrapCache[t].present) =>
            bootstrapCache'[t].expiry >= bootstrapCache[t].expiry]_vars

\* C26, amended: the last writer wins. Every refresh that completes
\* successfully stores its own data with its own start time plus 24h, whatever
\* entry is held, so the stored expiry is that of the refresh that completed
\* last, and it decreases when that refresh started before the one whose
\* entry it replaces.
C26_LastWriterWins ==
    [][\A c \in Slots, t \in Types :
        Stores(c, t) =>
            bootstrapCache'[t] = [present |-> TRUE, data |-> calls[c].id,
                                  expiry |-> calls[c].now + CACHE_TTL]]_vars

\* two refreshes of one type have completed successfully, and the entry held
\* is that of the one that started earlier
C26_Witness ==
    \E c1 \in Slots, c2 \in Slots, t \in Types :
        /\ calls[c1].type = t /\ calls[c2].type = t
        /\ calls[c1].net = "ok" /\ calls[c2].net = "ok"
        /\ calls[c1].pc = "returned" /\ calls[c2].pc = "returned"
        /\ calls[c1].now < calls[c2].now
        /\ bootstrapCache[t].present
        /\ bootstrapCache[t].data = calls[c1].id
        /\ bootstrapCache[t].expiry < calls[c2].now + CACHE_TTL

-----------------------------------------------------------------------------
(* Properties of the IPv4 table, the IPv6 table and their shared expiry *)

\* The two tables and the expiry are those stored by the refresh c.
HeldFrom(c) ==
    /\ calls[c].fn = "ip-rdap"
    /\ calls[c].pc = "returned"
    /\ calls[c].net = "ok"
    /\ ipv4BootstrapCache = calls[c].id
    /\ ipv6BootstrapCache = calls[c].id
    /\ bootstrapCacheExpiry = calls[c].now + CACHE_TTL

C27_ConcurrentWitness ==
    \E c1 \in Slots, c2 \in Slots :
        /\ HeldFrom(c1)
        /\ calls[c2].fn = "ip-rdap" /\ calls[c2].pc = "returned" /\ calls[c2].net = "ok"
        /\ calls[c1].now < calls[c2].now

-----------------------------------------------------------------------------
(* Properties of fetchAndCacheServers *)

NotInitialized == "throw: RDAP server list has not been initialized."

\* fetchAndCacheServers throws in this step
FetchAndCacheServersThrows ==
    /\ req.flow = "domain"
    /\ req.pc \in {"bootFetching", "bootParsing"}
    /\ req'.pc = "done"
    /\ req'.error \in {"fetch failed", "Failed to fetch IANA data", "json failed"}

\* The parts of C28 on when the table is fetched and when it changes: a
\* lookup fetches exactly when the cache is empty, a table once stored is
\* never replaced, and a call that fails leaves the cache empty.
FetchedOnceKeptEver ==
    /\ [][DomainLookupBegins =>
            (DnsFetch \in req'.fetched <=> ~RdapServersCacheHit(rdapServersCache))]_vars
    /\ [][RdapServersCacheHit(rdapServersCache) =>
            rdapServersCache' = rdapServersCache]_vars
    /\ [][FetchAndCacheServersThrows =>
            (rdapServersCache = NoTable /\ rdapServersCache' = NoTable)]_vars

\* C28, as stated: fetchAndCacheServers fetches from IANA only when the DNS
\* server cache is empty; once a call has completed successfully no later call
\* fetches and the cached table never changes again; a failed call leaves the
\* cache empty so that the next call fetches again; and findRdapServerUrl is
\* never reached with an empty cache in the domain lookup route.
C28_AsStated ==
    /\ FetchedOnceKeptEver
    /\ [](req.flow = "domain" => req.error # NotInitialized)

\* fetchAndCacheServers returned without throwing, the cache is empty, and
\* the route has answered with the error findRdapServerUrl throws
C28_Witness ==
    /\ req.flow = "domain"
    /\ req.pc = "done"
    /\ DnsFetch \in req.fetched
    /\ rdapServersCache = NoTable
    /\ req.error = NotInitialized
    /\ req.status = 500

\* findRdapServerUrl is reached with an empty cache only by the lookup whose
\* own fetch of the table was answered by a body without services; everything
\* else of C28 holds
C28_UnlessNoServices ==
    /\ FetchedOnceKeptEver
    /\ [](req.flow = "domain" /\ req.error = NotInitialized =>
            (DnsFetch \in req.fetched /\ rdapServersCache = NoTable))
    /\ [][(req.flow = "domain" /\ req.pc = "bootParsing" /\ rdapServersCache' # NoTable) =>
            req'.error # NotInitialized]_vars

-----------------------------------------------------------------------------
(* GET /api/geo/[address]: the status and the text of the remote server *)

\* the RDAP server answered the query with a response that is not ok, and
\* the route has answered the lookup
UpstreamErrorAnswered ==
    /\ req.flow = "ip"
    /\ req.pc = "done"
    /\ req.status # 0
    /\ req.queries = 1
    /\ req.response \in ErrorStatuses

\* C29: the status of the IP route depends on the kind of failure and not on
\* the text the remote server supplies: an upstream RDAP error, whatever its
\* description or title (one containing 'Invalid IP' or 'No RDAP server
\* found' included), is answered 500 and never 400 or 404.
C29_AsStated == UpstreamErrorAnswered => req.status = 500

\* an upstream error whose title is "No RDAP server found" and which has no
\* description: the route answers 404
C29_Witness ==
    /\ UpstreamErrorAnswered
    /\ req.body = ObjectBody(Undefined, Str("No RDAP server found"))
    /\ req.error = "No RDAP server found"
    /\ req.status = 404

\* an upstream error whose description is "Invalid IP address": 400
C29_DescriptionWitness ==
    /\ UpstreamErrorAnswered
    /\ req.body.description = Str("Invalid IP address")
    /\ req.status = 400

\* the status of an upstream error is a function of the message the remote
\* text gives, and is 500 for every text without the four the route looks for
C29_StatusFromRemoteText ==
    UpstreamErrorAnswered =>
        req.status = CASE req.error = "Invalid IP address" -> 400
                       [] req.error = "No RDAP server found" -> 404
                       [] OTHER -> 500

-----------------------------------------------------------------------------
(* Properties of the lookup page *)

\* the results that are not null
ResultsHeld ==
    {k \in LookupTypes :
        CASE k = "domain" -> page.domainResults # 0
          [] k = "ip" -> page.ipResults # 0
          [] k = "asn" -> page.asnResults # 0}

\* the lookup in flight fails in this step
PageLookupFails ==
    /\ page.pc \in {"fetching", "parsing"}
    /\ page'.pc = "idle"
    /\ \/ page.pc = "fetching"
       \/ ~page.ok
       \/ page'.status.type = "error"

\* C30: on the lookup page, after any sequence of type switches and
\* submitted lookups (a submit only while isLoading is false), at most one
\* of domainResults, ipResults and asnResults is non-null; every lookup that
\* starts eventually sets isLoading to false; and a lookup that fails leaves
\* all three null with the status type 'error'.
C30_OneResultLoadingEnds ==
    /\ [](Cardinality(ResultsHeld) <= 1)
    /\ (page.isLoading ~> ~page.isLoading)
    /\ [][PageLookupFails =>
            (/\ page'.domainResults = 0 /\ page'.ipResults = 0 /\ page'.asnResults = 0
             /\ page'.status.type = "error"
             /\ ~page'.isLoading)]_vars

\* the type was switched while a domain lookup was in flight, its result
\* arrived afterwards, and it is the only result held; an earlier lookup had
\* brought another
C30_Witness ==
    /\ page.lookupType = "ip"
    /\ page.domainResults = 2
    /\ ResultsHeld = {"domain"}
    /\ ~page.isLoading

\* the second or a later lookup has failed: nothing is held
C30_FailedWitness ==
    /\ page.lookups >= 2
    /\ page.pc = "idle"
    /\ page.status.type = "error"
    /\ ResultsHeld = {}
    /\ ~page.isLoading

====
